---- MODULE Spec2Model ----
(***************************************************************************)
(* Order-notification path of hookdeck/shopify-festive-notifications:      *)
(* the orders/create webhook handler (app/routes/webhooks.orders.create),  *)
(* and the publisher helper (app/helpers/hookdeck-publisher):              *)
(* fetchProductImage, transformOrderToNotification, publishToHookdeck and  *)
(* publishOrderNotification.                                               *)
(* Beside it: the setup script (scripts/setup-hookdeck.ts), which creates  *)
(* the two gateway connections and rewrites shopify.app.toml; two          *)
(* invocations of the handler side by side and the way of their events to  *)
(* the storefront script (connectAbly); and a gateway that delivers a      *)
(* webhook again each time the handler raises.                             *)
(*                                                                         *)
(* JavaScript values are tagged records, so that undefined, null, strings, *)
(* numbers, booleans and arrays stay distinct and `||`, optional chaining  *)
(* and JSON.stringify behave as they do in the source.                     *)
(***************************************************************************)
EXTENDS Integers, Sequences, FiniteSets, TLC

----------------------------------------------------------------------------
(* Bounds of the model *)

\* longest line_items sequence of an order
MaxItems == 2

\* most answers of the publish endpoint that are not a success before it
\* answers with one
MaxFailures == 2

\* most product snowflakes the storefront script creates
MaxFlakes == 2

----------------------------------------------------------------------------
(* JavaScript values *)

Undef == [t |-> "undefined"]

Null == [t |-> "null"]

Str(s) == [t |-> "string", v |-> s]

Num(n) == [t |-> "number", v |-> n]

Bool(b) == [t |-> "boolean", v |-> b]

Arr(s) == [t |-> "array", v |-> s]

\* ToBoolean: the test applied by `if (x)`, `!x`, `a || b` and `a && b`
Truthy(x) ==
  CASE x.t = "undefined" -> FALSE
    [] x.t = "null" -> FALSE
    [] x.t = "string" -> x.v # ""
    [] x.t = "text" -> x.v # <<>>
    [] x.t = "number" -> x.v # 0
    [] x.t = "boolean" -> x.v
    [] OTHER -> TRUE

\* a ?? b, which keeps an empty string and a false
OrNullish(a, b) == IF a.t \in {"undefined", "null"} THEN b ELSE a

\* a || b
Or(a, b) == IF Truthy(a) THEN a ELSE b

\* JSON.stringify of an object: a key whose value is undefined is omitted,
\* a key whose value is null is kept (as null); arrays keep their length
RECURSIVE JSONstringify(_)
JSONstringify(x) ==
  IF x.t = "array"
  THEN Arr([i \in 1..Len(x.v) |-> JSONstringify(x.v[i])])
  ELSE IF x.t = "object"
  THEN [t |-> "object",
        v |-> [k \in {q \in DOMAIN x.v : x.v[q] # Undef} |-> JSONstringify(x.v[k])]]
  ELSE x

Obj(f) == [t |-> "object", v |-> f]

\* x.k on an object (a key the object lacks reads as undefined)
Prop(x, k) == IF x.t = "object" /\ k \in DOMAIN x.v THEN x.v[k] ELSE Undef

\* x?.k: undefined when x is undefined or null, x.k otherwise
OptChain(x, k) == IF x.t \in {"undefined", "null"} THEN Undef ELSE Prop(x, k)

----------------------------------------------------------------------------
(* Inputs: the order records, webhook contexts and remote answers the      *)
(* handler is run on                                                       *)

\* customer data of an order; the values are distinct from every value of an
\* allow-listed field, so that an occurrence in the output is a leak
PIIFields ==
  {"email", "phone", "customer", "shipping_address", "billing_address",
   "payment_details", "browser_ip"}

Customers ==
  {[email |-> Str("ada@example.com"), phone |-> Str("+15550001"),
    customer |-> Str("Ada Lovelace"), shipping_address |-> Str("1 Ship St"),
    billing_address |-> Str("1 Bill St"), payment_details |-> Str("visa 4242"),
    browser_ip |-> Str("203.0.113.7")],
   [email |-> Str("bob@example.com"), phone |-> Str("+15550002"),
    customer |-> Str("Bob Babbage"), shipping_address |-> Str("2 Ship St"),
    billing_address |-> Str("2 Bill St"), payment_details |-> Str("amex 0005"),
    browser_ip |-> Str("198.51.100.9")]}

ProductIds == {Undef, Num(555)}

Quantities == {1, 2}

LineItems ==
  {Obj([id |-> Num(9001), name |-> Str("Mug"), title |-> Str("Mug"),
        quantity |-> Num(q), price |-> Str("14.99"), sku |-> Undef,
        product_id |-> p, variant_id |-> Num(7), grams |-> Num(300),
        vendor |-> Str("Acme"), requires_shipping |-> Bool(TRUE),
        taxable |-> Bool(TRUE), gift_card |-> Bool(FALSE),
        properties |-> Str("engraving: Ada")]) :
     q \in Quantities, p \in ProductIds}

RECURSIVE SeqsUpTo(_, _)
SeqsUpTo(S, n) ==
  IF n = 0 THEN {<<>>}
  ELSE LET shorter == SeqsUpTo(S, n - 1)
       IN shorter \cup {Append(s, x) : s \in {q \in shorter : Len(q) = n - 1}, x \in S}

\* order.line_items: absent, or a sequence (possibly empty) of line items
LineItemLists == {Undef} \cup {Arr(s) : s \in SeqsUpTo(LineItems, MaxItems)}

\* the order-level fields that vary between the orders: whose order it is,
\* its test flag and its shop_domain
OrderHeads ==
  {[customer |-> CHOOSE c \in Customers : c.customer = Str("Ada Lovelace"),
    test |-> Undef, shop_domain |-> Undef],
   [customer |-> CHOOSE c \in Customers : c.customer = Str("Bob Babbage"),
    test |-> Bool(TRUE), shop_domain |-> Str("b.myshopify.com")],
   [customer |-> CHOOSE c \in Customers : c.customer = Str("Ada Lovelace"),
    test |-> Bool(FALSE), shop_domain |-> Str("")]}

Orders ==
  {Obj([id |-> Num(1), name |-> Str("#1001"),
        email |-> h.customer.email, phone |-> h.customer.phone, customer |-> h.customer.customer,
        shipping_address |-> h.customer.shipping_address,
        billing_address |-> h.customer.billing_address,
        payment_details |-> h.customer.payment_details, browser_ip |-> h.customer.browser_ip,
        created_at |-> Str("2025-12-01T10:00:00Z"), currency |-> Str("USD"),
        total_price |-> Str("29.99"), subtotal_price |-> Str("27.00"),
        total_tax |-> Str("2.99"), total_discounts |-> Str("0.00"),
        test |-> h.test, total_weight |-> Num(600), tags |-> Str("gift"),
        source_name |-> Str("web"), shop_domain |-> h.shop_domain,
        line_items |-> li]) :
     h \in OrderHeads, li \in LineItemLists}

\* shop of the webhook context
Shops == {Str(""), Str("a.myshopify.com")}

\* admin of the webhook context: the GraphQL client, or undefined when the
\* shop has no session
Admins == {Undef, Obj([graphql |-> Str("client")])}

\* process.env.HOOKDECK_API_KEY
ApiKeys == {Undef, Str("hk_key")}

\* what admin.graphql and response.json() can do for one product query: the
\* call rejects, the body is not JSON, or the body is a JSON document
ImageUrl == Str("https://cdn.shopify.com/mug.jpg")

ProductResponse(featuredImage) ==
  [kind |-> "json",
   data |-> Obj([data |-> Obj([product |-> Obj([featuredImage |-> featuredImage])])])]

ImageResponses ==
  {[kind |-> "throws"], [kind |-> "badJson"],
   ProductResponse(Null),
   ProductResponse(Obj([url |-> Null])),
   ProductResponse(Obj([url |-> ImageUrl]))}

\* what fetch() to the publish endpoint can do: reject, or answer with a
\* status and a body that is the JSON publish response or some other text
Statuses == {200, 400, 503}

PublishResponseBody ==
  Obj([id |-> Str("evt_1"), source_id |-> Str("src_1"),
       created_at |-> Str("2025-12-01T10:00:01Z")])

FetchOutcomes ==
  {[kind |-> "networkError"]}
    \cup {[kind |-> "response", status |-> st, json |-> j] :
            st \in Statuses, j \in {Undef, PublishResponseBody}}

----------------------------------------------------------------------------
(* app/helpers/hookdeck-publisher.ts *)

\* fetchProductImage: the value it resolves to for one answer of the catalog
fetchProductImage(resp) ==
  IF resp.kind \in {"throws", "badJson"}
  THEN Undef
  ELSE OptChain(OptChain(OptChain(OptChain(resp.data, "data"), "product"),
                         "featuredImage"), "url")

\* (order.line_items || [])
orderLineItems(order) == Or(Prop(order, "line_items"), Arr(<<>>)).v

\* a lookup condition that forgets the admin client
needsLookupWithoutAdmin(admin, item) == Truthy(Prop(item, "product_id"))

\* the image of one line item: looked up only if (admin && item.product_id)
needsLookup(admin, item) == Truthy(admin) /\ Truthy(Prop(item, "product_id"))

\* a map callback that also copies a field outside the allow-list
notificationLineItemWithProperties(item, image) ==
  Obj([name |-> Prop(item, "name"),
       title |-> Prop(item, "title"),
       quantity |-> Prop(item, "quantity"),
       price |-> Prop(item, "price"),
       sku |-> Prop(item, "sku"),
       product_id |-> Prop(item, "product_id"),
       variant_id |-> Prop(item, "variant_id"),
       grams |-> Prop(item, "grams"),
       vendor |-> Prop(item, "vendor"),
       requires_shipping |-> Prop(item, "requires_shipping"),
       taxable |-> Prop(item, "taxable"),
       gift_card |-> Prop(item, "gift_card"),
       properties |-> Prop(item, "properties"),
       image |-> image])

\* the object the map callback returns for one line item
notificationLineItem(item, image) ==
  Obj([name |-> Prop(item, "name"),
       title |-> Prop(item, "title"),
       quantity |-> Prop(item, "quantity"),
       price |-> Prop(item, "price"),
       sku |-> Prop(item, "sku"),
       product_id |-> Prop(item, "product_id"),
       variant_id |-> Prop(item, "variant_id"),
       grams |-> Prop(item, "grams"),
       vendor |-> Prop(item, "vendor"),
       requires_shipping |-> Prop(item, "requires_shipping"),
       taxable |-> Prop(item, "taxable"),
       gift_card |-> Prop(item, "gift_card"),
       image |-> image])

\* a reduce that counts the line items instead of adding their quantities
itemCountOfLines(lineItems) == Len(lineItems)

\* lineItems.reduce((sum, item) => sum + item.quantity, 0)
RECURSIVE itemCount(_)
itemCount(lineItems) ==
  IF lineItems = <<>>
  THEN 0
  ELSE itemCount(SubSeq(lineItems, 1, Len(lineItems) - 1))
         + Prop(lineItems[Len(lineItems)], "quantity").v

\* a notification object that also names the customer, as the notification
\* of the architecture plan did
orderNotificationWithCustomer(order, shopDomain, lineItems) ==
  Obj([created_at |-> Prop(order, "created_at"),
       currency |-> Prop(order, "currency"),
       total_price |-> Prop(order, "total_price"),
       subtotal_price |-> Prop(order, "subtotal_price"),
       total_tax |-> Prop(order, "total_tax"),
       total_discounts |-> Prop(order, "total_discounts"),
       item_count |-> Num(itemCount(lineItems)),
       line_items |-> Arr(lineItems),
       shop |-> Or(Or(shopDomain, Prop(order, "shop_domain")), Str("")),
       test |-> Or(Prop(order, "test"), Bool(FALSE)),
       total_weight |-> Prop(order, "total_weight"),
       tags |-> Prop(order, "tags"),
       source_name |-> Prop(order, "source_name"),
       customerName |-> Prop(order, "customer")])

\* the notification object built from the order and the mapped line items
orderNotification(order, shopDomain, lineItems) ==
  Obj([created_at |-> Prop(order, "created_at"),
       currency |-> Prop(order, "currency"),
       total_price |-> Prop(order, "total_price"),
       subtotal_price |-> Prop(order, "subtotal_price"),
       total_tax |-> Prop(order, "total_tax"),
       total_discounts |-> Prop(order, "total_discounts"),
       item_count |-> Num(itemCount(lineItems)),
       line_items |-> Arr(lineItems),
       shop |-> Or(Or(shopDomain, Prop(order, "shop_domain")), Str("")),
       test |-> Or(Prop(order, "test"), Bool(FALSE)),
       total_weight |-> Prop(order, "total_weight"),
       tags |-> Prop(order, "tags"),
       source_name |-> Prop(order, "source_name")])

\* a transform that collects the mapped items last first
transformOrderToNotificationReversed(order, shopDomain, admin, resps) ==
  LET items == orderLineItems(order)
      n == Len(items)
      lineItems ==
        [i \in 1..n |->
           notificationLineItem(items[n + 1 - i],
             IF needsLookup(admin, items[n + 1 - i])
             THEN fetchProductImage(resps[n + 1 - i])
             ELSE Undef)]
  IN orderNotification(order, shopDomain, lineItems)

\* transformOrderToNotification, given the answer resps[i] the catalog gave
\* for line item i (read only for the items that were looked up)
transformOrderToNotification(order, shopDomain, admin, resps) ==
  LET items == orderLineItems(order)
      lineItems ==
        [i \in 1..Len(items) |->
           notificationLineItem(items[i],
             IF needsLookup(admin, items[i])
             THEN fetchProductImage(resps[i])
             ELSE Undef)]
  IN orderNotification(order, shopDomain, lineItems)

\* the request publishToHookdeck hands to fetch
publishRequest(sourceName, data, apiKey) ==
  [url |-> "https://hkdk.events/v1/publish",
   method |-> "POST",
   headers |-> [ContentType |-> "application/json",
                Authorization |-> <<"Bearer", apiKey>>,
                XHookdeckSourceName |-> sourceName],
   body |-> JSONstringify(Obj([data |-> data]))]

\* a success test that only takes server errors for failures
okBelow500(status) == status < 500

\* response.ok
ok(status) == 200 <= status /\ status <= 299

\* a publishToHookdeck without the response.ok test
publishToHookdeckUnchecked(outcome) ==
  IF outcome.kind = "networkError"
  THEN [kind |-> "raised", error |-> "fetch failed", status |-> Undef]
  ELSE IF outcome.json = Undef
  THEN [kind |-> "raised", error |-> "invalid json", status |-> Undef]
  ELSE [kind |-> "returned", result |-> outcome.json]

\* publishToHookdeck after fetch settled: it returns the parsed body, or
\* throws (the fetch error, the "Hookdeck publish failed" error carrying the
\* status, or the error of response.json())
publishToHookdeck(outcome) ==
  IF outcome.kind = "networkError"
  THEN [kind |-> "raised", error |-> "fetch failed", status |-> Undef]
  ELSE IF ~ok(outcome.status)
  THEN [kind |-> "raised", error |-> "Hookdeck publish failed",
        status |-> Num(outcome.status)]
  ELSE IF outcome.json = Undef
  THEN [kind |-> "raised", error |-> "invalid json", status |-> Undef]
  ELSE [kind |-> "returned", result |-> outcome.json]

\* publishToHookdeck when HOOKDECK_API_KEY is not set: it throws before fetch
missingApiKey ==
  [kind |-> "raised", error |-> "HOOKDECK_API_KEY environment variable is not set",
   status |-> Undef]

\* a publisher that names the source of another connection
NotificationSourceOfOrders == "shopify-webhooks"

\* the source publishOrderNotification publishes to
NotificationSource == "shopify-notifications-publish"

----------------------------------------------------------------------------
(* app/routes/webhooks.orders.create.tsx *)

\* a handler that logs the error and answers with success all the same, as
\* the handler of the architecture plan did
actionResponseSwallowing(outcome) ==
  [kind |-> "response", status |-> 200, body |-> ""]

\* what the handler gives its caller for an outcome of
\* publishOrderNotification: new Response(), or the error rethrown
actionResponse(outcome) ==
  IF outcome.kind = "returned"
  THEN [kind |-> "response", status |-> 200, body |-> ""]
  ELSE [kind |-> "raised", error |-> outcome.error, status |-> outcome.status]

\* the handler has no try around authenticate.webhook: its rejection is the
\* handler's rejection
authRejected == [kind |-> "raised", error |-> "authenticate.webhook", status |-> Undef]

----------------------------------------------------------------------------
(* scripts/setup-hookdeck.ts: inputs *)

\* longest list of [[webhooks.subscriptions]] tables in shopify.app.toml
MaxSubs == 2

\* a string whose characters matter (it is split or matched): its characters
Text(chars) == [t |-> "text", v |-> chars]

\* process.env.ABLY_API_KEY: unset, empty, appId.keyId:keySecret, without
\* colon, without key name, without secret, with a second colon
AblyApiKeys ==
  {Undef, Text(<<>>), Text(<<"a", ".", "k", ":", "s">>), Text(<<"a", ".", "k">>),
   Text(<<":", "s">>), Text(<<"a", ".", "k", ":">>),
   Text(<<"a", ".", "k", ":", "s", ":", "t">>)}

\* process.env.SHOPIFY_API_SECRET
ShopifyApiSecrets == {Undef, Str("shpss_secret")}

\* the environment the script is started in
Envs ==
  [HOOKDECK_API_KEY : ApiKeys, SHOPIFY_API_SECRET : ShopifyApiSecrets,
   ABLY_API_KEY : AblyApiKeys]

\* shopify.app.toml as the lines that matter to the script: the header of a
\* [[webhooks.subscriptions]] table, a topics line, a uri line
Header == [k |-> "header"]

TopicsLine(topics) == [k |-> "topics", topics |-> topics]

UriLine(uri) == [k |-> "uri", uri |-> uri]

\* one subscription table, its two keys in either order
Subscription(topics, uri, uriFirst) ==
  IF uriFirst
  THEN <<Header, UriLine(uri), TopicsLine(topics)>>
  ELSE <<Header, TopicsLine(topics), UriLine(uri)>>

TopicLists ==
  {<<"orders/create">>, <<"app/uninstalled">>, <<"orders/updated", "orders/create">>}

\* the uri of the subscription at each place of the file before the script ran
OldUris == <<"/webhooks/first", "/webhooks/second", "/webhooks/third">>

\* the contents of shopify.app.toml: no subscription table, or up to MaxSubs
RECURSIVE TomlContents(_)
TomlContents(n) ==
  IF n = 0 THEN {<<>>}
  ELSE LET shorter == TomlContents(n - 1)
       IN shorter \cup
            {c \o Subscription(t, OldUris[n], f) :
               c \in {q \in shorter : Len(q) = 3 * (n - 1)},
               t \in TopicLists, f \in BOOLEAN}

\* shopify.app.toml on disk: missing (undefined), or one of the contents
ShopifyConfigs == {Undef} \cup {Text(c) : c \in TomlContents(MaxSubs)}

\* the source URL the Hookdeck API reports for a connection
SourceUrl == "https://hkdk.events/src_1"

\* what fetch() to PUT /connections can do: reject, or answer with a status
\* and a body: not JSON, a connection with its source URL, a connection
\* whose source has no url, a document without source
ConnectionOutcomes ==
  {[kind |-> "networkError"]}
    \cup {[kind |-> "response", status |-> st, json |-> j] :
            st \in {200, 401},
            j \in {Undef, Obj([source |-> Obj([url |-> Str(SourceUrl)])]),
                   Obj([source |-> Obj([name |-> Str("src")])]),
                   Obj([id |-> Str("web_1")])}}

\* what the user types at the prompt
Answers == {"y", "Y", "yes", "Yes", "YES", "n", "no", ""}

\* whether writeFileSync throws
WriteOutcomes == {"written", "throws"}

----------------------------------------------------------------------------
(* scripts/setup-hookdeck.ts *)

CONFIG ==
  [connectionName |-> "shopify-orders-create",
   sourceName |-> "shopify-webhooks",
   destinationPath |-> "/webhooks/orders/create",
   shopifyConfig |-> "shopify.app.toml",
   hookdeckApiUrl |-> "https://api.hookdeck.com/2025-07-01"]

\* the PUT /connections request with the given body
connectionRequest(apiKeyOfEnv, body) ==
  [url |-> <<CONFIG.hookdeckApiUrl, "/connections">>,
   method |-> "PUT",
   headers |-> [Authorization |-> <<"Bearer", apiKeyOfEnv>>,
                ContentType |-> "application/json"],
   body |-> JSONstringify(body)]

\* body of the request of createHookdeckConnection
hookdeckConnection(shopifySecret) ==
  Obj([name |-> Str(CONFIG.connectionName),
       source |-> Obj([name |-> Str(CONFIG.sourceName),
                       type |-> Str("SHOPIFY"),
                       config |-> Obj([auth |-> Obj([webhook_secret_key |-> shopifySecret])])]),
       destination |-> Obj([name |-> Str("shopify-orders-create-cli"),
                            type |-> Str("CLI"),
                            config |-> Obj([path |-> Str(CONFIG.destinationPath)])])])

\* body of the request of createAblyConnection
ablyConnection(username, password) ==
  Obj([name |-> Str("ably-notifications"),
       source |-> Obj([name |-> Str("shopify-notifications-publish"),
                       type |-> Str("PUBLISH_API")]),
       destination |->
         Obj([name |-> Str("ably-rest-api"),
              type |-> Str("HTTP"),
              config |->
                Obj([url |-> Str(<<"https://rest.ably.io/channels/",
                                   "shopify-notifications", "/messages">>),
                     http_method |-> Str("POST"),
                     auth_type |-> Str("BASIC_AUTH"),
                     auth |-> Obj([username |-> username, password |-> password])])])])

\* text.split(":"): the pieces of the text between its colons
RECURSIVE split(_)
split(chars) ==
  IF \A i \in 1..Len(chars) : chars[i] # ":"
  THEN <<chars>>
  ELSE LET k == CHOOSE i \in 1..Len(chars) :
                  chars[i] = ":" /\ \A j \in 1..(i - 1) : chars[j] # ":"
       IN <<SubSeq(chars, 1, k - 1)>> \o split(SubSeq(chars, k + 1, Len(chars)))

\* a split that takes a key without a colon for both the name and the secret
ablyCredentialsWhole(ablyApiKey) ==
  LET parts == split(ablyApiKey.v)
  IN [username |-> Text(parts[1]),
      password |-> IF Len(parts) >= 2 THEN Text(parts[2]) ELSE Text(parts[1])]

\* const [username, password] = ablyApiKey.split(":")
ablyCredentials(ablyApiKey) ==
  LET parts == split(ablyApiKey.v)
  IN [username |-> Text(parts[1]),
      password |-> IF Len(parts) >= 2 THEN Text(parts[2]) ELSE Undef]

\* a response test that takes every answer for a success
connectionSourceUrlUnchecked(outcome) ==
  IF outcome.kind = "networkError" THEN Undef
  ELSE IF outcome.json = Undef THEN Undef
  ELSE IF Prop(outcome.json, "source") = Undef THEN Undef
  ELSE IF ~Truthy(Prop(Prop(outcome.json, "source"), "url")) THEN Str(SourceUrl)
  ELSE Prop(Prop(outcome.json, "source"), "url")

\* what createHookdeckConnection and createAblyConnection get from fetch:
\* connection.source.url, or undefined where they exit (fetch rejected, the
\* status is not 2xx, the body is not JSON, reading source.url threw, or the
\* url is missing)
connectionSourceUrl(outcome) ==
  IF outcome.kind = "networkError" THEN Undef
  ELSE IF ~ok(outcome.status) THEN Undef
  ELSE IF outcome.json = Undef THEN Undef
  ELSE IF Prop(outcome.json, "source") = Undef THEN Undef
  ELSE IF ~Truthy(Prop(Prop(outcome.json, "source"), "url")) THEN Undef
  ELSE Prop(Prop(outcome.json, "source"), "url")

\* TOML.parse(fileContent).webhooks?.subscriptions: undefined without a
\* subscription table, else the tables in file order, each with the topics
\* and the uri of its lines
TOMLparse(content) ==
  LET headers == {i \in 1..Len(content) : content[i] = Header}
      table(h) ==
        LET last == IF \E g \in headers : g > h
                    THEN (CHOOSE g \in headers : g > h /\ \A f \in headers : f > h => g <= f) - 1
                    ELSE Len(content)
            line(key) ==
              IF \E i \in (h + 1)..last : content[i].k = key
              THEN (CHOOSE i \in (h + 1)..last : content[i].k = key)
              ELSE 0
        IN [topics |-> IF line("topics") = 0 THEN Undef ELSE Arr(content[line("topics")].topics),
            uri |-> IF line("uri") = 0 THEN Undef ELSE Str(content[line("uri")].uri)]
  IN IF headers = {} THEN Undef
     ELSE Arr([n \in 1..Cardinality(headers) |->
                 table(CHOOSE h \in headers : Cardinality({g \in headers : g < h}) = n - 1)])

\* sub.topics?.includes("orders/create")
includesOrdersCreate(sub) ==
  sub.topics # Undef /\ \E i \in 1..Len(sub.topics.v) : sub.topics.v[i] = "orders/create"

\* webhookSubs.find(...): the place of the first subscription that lists
\* orders/create, 0 when there is none
ordersCreateSub(webhookSubs) ==
  IF \E n \in 1..Len(webhookSubs.v) : includesOrdersCreate(webhookSubs.v[n])
  THEN CHOOSE n \in 1..Len(webhookSubs.v) :
         /\ includesOrdersCreate(webhookSubs.v[n])
         /\ \A m \in 1..(n - 1) : ~includesOrdersCreate(webhookSubs.v[m])
  ELSE 0

\* the line the regular expression of updateShopifyConfig rewrites: after a
\* table header, the first line topics = ["orders/create"], and after that
\* line the first uri line, whatever lies between them; 0 when there is no
\* such match
matchedUriLine(content) ==
  LET topicsAt == {t \in 1..Len(content) :
                     /\ content[t] = TopicsLine(<<"orders/create">>)
                     /\ \E h \in 1..(t - 1) : content[h] = Header}
      uriAfter(t) == {u \in (t + 1)..Len(content) : content[u].k = "uri"}
      matches == {t \in topicsAt : uriAfter(t) # {}}
  IN IF matches = {} THEN 0
     ELSE LET t == CHOOSE x \in matches : \A y \in matches : x <= y
          IN CHOOSE u \in uriAfter(t) : \A w \in uriAfter(t) : u <= w

\* fileContent.replace(/.../, `$1"${sourceUrl}"`): the matched uri line gets
\* the source URL; without a match the content is returned as it is
replaceUri(content, sourceUrl) ==
  IF matchedUriLine(content) = 0 THEN content
  ELSE [content EXCEPT ![matchedUriLine(content)] = UriLine(sourceUrl)]

\* answer.toLowerCase()
toLowerCase(answer) ==
  CASE answer = "Y" -> "y"
    [] answer = "Yes" -> "yes"
    [] answer = "YES" -> "yes"
    [] OTHER -> answer

\* a prompt that takes everything but a refusal for a yes
confirmUnlessNo(answer) == toLowerCase(answer) # "n"

\* what confirm resolves to for an answer
confirm(answer) == toLowerCase(answer) = "y" \/ toLowerCase(answer) = "yes"

----------------------------------------------------------------------------
(* The storefront script (notifications.js): the product snowflakes and the  *)
(* order notifications it builds from the messages of the channel            *)

\* line items of a published record: one with an image, one without
MugItem ==
  Obj([name |-> Str("Mug"), price |-> Str("12.00"), quantity |-> Num(1),
       image |-> ImageUrl])

TeeItem ==
  Obj([name |-> Str("Tee"), price |-> Str("20.00"), quantity |-> Num(2),
       image |-> Null])

\* order data with the given line_items
OrderData(lineItems) ==
  Obj([shop |-> Str("a.myshopify.com"), currency |-> Str("USD"),
       line_items |-> lineItems])

\* what a message of the channel carries as its data: nothing, order data
\* as it is, or order data nested in a data key; the order data has no
\* line_items, none, one, or two
MessageData ==
  {Undef, OrderData(Arr(<<MugItem>>))}
    \cup {Obj([data |-> OrderData(l)]) :
             l \in {Undef, Arr(<<>>), Arr(<<MugItem>>), Arr(<<TeeItem, MugItem>>)}}

Messages == {Obj([data |-> d]) : d \in MessageData}

\* what reading a property of undefined or of null raises
TypeError == [t |-> "TypeError"]

\* x.k, which raises when x is undefined or null
Member(x, k) == IF x.t \in {"undefined", "null"} THEN TypeError ELSE Prop(x, k)

\* x[i] for the i-th element counted from 0, which raises when x is undefined
\* or null
Index(x, i) ==
  IF x.t \in {"undefined", "null"} THEN TypeError
  ELSE IF x.t = "array" /\ i + 1 \in DOMAIN x.v THEN x.v[i + 1]
  ELSE Undef

\* a product snowflake without the auto-remove timer
createProductSnowflakeWithoutTimer(imageUrl, productName) ==
  [img |-> IF Truthy(imageUrl)
           THEN Obj([src |-> imageUrl, alt |-> Or(productName, Str("Product"))])
           ELSE Undef,
   textContent |-> IF Truthy(imageUrl) THEN Str("") ELSE Str("gift"),
   inContainer |-> TRUE,
   timer |-> "none",
   removals |-> <<>>]

\* createProductSnowflake: the flake as it is when the function returns, in
\* the container, with its image or the fallback, and its auto-remove timer
\* pending; removals lists what took the flake out of the container
createProductSnowflake(imageUrl, productName) ==
  [img |-> IF Truthy(imageUrl)
           THEN Obj([src |-> imageUrl, alt |-> Or(productName, Str("Product"))])
           ELSE Undef,
   textContent |-> IF Truthy(imageUrl) THEN Str("") ELSE Str("gift"),
   inContainer |-> TRUE,
   timer |-> "pending",
   removals |-> <<>>]

\* an item taken from the end of the line items
lastLineItem(orderData) ==
  LET lineItems == Member(orderData, "line_items")
  IN IF lineItems = TypeError THEN TypeError
     ELSE IF ~Truthy(lineItems) THEN lineItems
     ELSE Index(lineItems, Len(lineItems.v) - 1)

\* createNotification: orderData.line_items && orderData.line_items[0]
firstLineItem(orderData) ==
  LET lineItems == Member(orderData, "line_items")
  IN IF lineItems = TypeError THEN TypeError
     ELSE IF ~Truthy(lineItems) THEN lineItems
     ELSE Index(lineItems, 0)

\* createNotification: the div.order-notification as it is appended to the
\* body, by what its template was filled with, its removal timer pending
orderNotificationElement(orderData, item) ==
  [image |-> IF Truthy(Prop(item, "image"))
             THEN Obj([src |-> Prop(item, "image"), alt |-> Prop(item, "name")])
             ELSE Undef,
   product |-> Prop(item, "name"),
   price |-> <<Prop(orderData, "currency"), Prop(item, "price"),
               Prop(item, "quantity")>>,
   shop |-> Prop(orderData, "shop"),
   inBody |-> TRUE,
   timer |-> "pending"]

\* createNotification(orderData): whether it raised, and the flakes and
\* elements it added
createNotification(orderData) ==
  LET item == firstLineItem(orderData)
  IN IF item = TypeError
     THEN [raised |-> TRUE, flakes |-> <<>>, elements |-> <<>>]
     ELSE IF ~Truthy(item)
     THEN [raised |-> FALSE, flakes |-> <<>>, elements |-> <<>>]
     ELSE [raised |-> FALSE,
           flakes |-> <<createProductSnowflake(Prop(item, "image"),
                                               Prop(item, "name"))>>,
           elements |-> <<orderNotificationElement(orderData, item)>>]

\* the callback of channel.subscribe: message.data?.data || message.data is
\* given to createNotification when it is truthy
subscribeCallback(message) ==
  LET orderData == Or(OptChain(Prop(message, "data"), "data"),
                      Prop(message, "data"))
  IN IF Truthy(orderData)
     THEN createNotification(orderData)
     ELSE [raised |-> FALSE, flakes |-> <<>>, elements |-> <<>>]

\* the image the test interval gives its snowflakes
testImage == Str("https://cdn.shopify.com/unisex-staple-t-shirt.jpg")

----------------------------------------------------------------------------
(* The admin page (app/routes/app._index.tsx) and its helpers                *)
(* (app/helpers/webhooks.ts): inputs and what the helpers send               *)

\* request.method of a request the action is given
Methods == {"POST", "DELETE", "PUT", "PATCH"}

\* ids of webhook subscriptions
WebhookId(n) == Str(<<"gid://shopify/WebhookSubscription/", n>>)

\* data.get("webhookId") of the form: null without the field, else the id
\* of a subscription there is, or of one there is not
FormWebhookIds == {Null, WebhookId(1), WebhookId(9)}

\* authResult.session.shop
SessionShops ==
  {Text(<<"a", ".", "myshopify", ".", "com">>),
   Text(<<"b", ".", "myshopify", ".", "com">>)}

\* a webhook subscription as the shop keeps it
Node(id, topic, callbackUrl) ==
  Obj([id |-> id, topic |-> Str(topic), callbackUrl |-> callbackUrl])

\* the webhook subscriptions of the shop before the request: none, or one
SubscriptionLists ==
  {<<>>, <<Node(WebhookId(1), "ORDERS_CREATE", Str("https://hkdk.events/old"))>>}

\* text.replace(".", "-"): the first dot becomes a dash
replace(chars) ==
  IF \A i \in 1..Len(chars) : chars[i] # "."
  THEN chars
  ELSE LET k == CHOOSE i \in 1..Len(chars) :
                  chars[i] = "." /\ \A j \in 1..(i - 1) : chars[j] # "."
       IN [chars EXCEPT ![k] = "-"]

\* updateHookdeckConnection(shopDomain): what it gives hookdeck.connection.upsert
connectionUpsert(shopDomain, ablyApiKey) ==
  LET shopId == replace(shopDomain.v)
  IN Obj([name |-> Text(shopId \o <<"_order-created">>),
          source |-> Obj([name |-> Text(shopId \o <<"_order-created">>)]),
          destination |->
            Obj([name |-> Text(shopId \o <<"_ably">>),
                 url |-> Text(<<"https://rest.ably.io/channels/">> \o shopId
                                \o <<"/messages">>),
                 authMethod |->
                   Obj([type |-> Str("BEARER_TOKEN"),
                        config |-> Obj([token |-> ablyApiKey])])])])

\* createOrdersWebhook: the variables of its webhookSubscriptionCreate
webhookSubscriptionCreate(webhookUrlOfSource) ==
  [op |-> "webhookSubscriptionCreate",
   variables |-> Obj([topic |-> Str("ORDERS_CREATE"),
                      webhookSubscription |->
                        Obj([callbackUrl |-> webhookUrlOfSource,
                             format |-> Str("JSON")])])]

\* deleteWebhook: the variables of its webhookSubscriptionDelete
webhookSubscriptionDelete(id) ==
  [op |-> "webhookSubscriptionDelete", variables |-> Obj([id |-> id])]

\* getWebhookSubscriptions: its query, which has no variables
WebhookSubscriptionList ==
  [op |-> "WebhookSubscriptionList", variables |-> Obj([first |-> Num(10)])]

\* what a call of the shop's GraphQL API or of the gateway's SDK can do:
\* resolve with the outcome asked for, resolve with user errors, or reject
CallOutcomes == {"ok", "userErrors", "throws"}

----------------------------------------------------------------------------
(* State *)

VARIABLES
  apiKey,        \* process.env.HOOKDECK_API_KEY
  pc,            \* where the delivery being handled stands
  request,       \* the delivery: signature validity and webhook context
  lookups,       \* per line item: skipped, pending, or the catalog's answer
  queries,       \* product ids queried from the catalog, in issue order
  notification,  \* the OrderNotification built by the transform
  publishCalls,  \* invocations of publishToHookdeck: source name and data
  outbound,      \* requests handed to fetch for the publish endpoint
  fetched,       \* what fetch did for the publish request
  published,     \* outcome of publishOrderNotification
  response,      \* what the handler gave its caller
  env,           \* process.env of the setup script
  shopifyConfig, \* shopify.app.toml on disk
  original,      \* shopify.app.toml as it was when the script started
  spc,           \* where the setup script stands
  requests,      \* requests the script handed to fetch
  responses,     \* what fetch did for each of them
  hookdeckSourceUrl, \* what createHookdeckConnection returned to main
  answers,       \* what the user typed at the prompts
  writes,        \* contents the script wrote to shopify.app.toml
  exitCode,      \* exit status of the script
  deliveries,    \* the invocations of the handler that run side by side
  forwarded,     \* the invocations whose event the gateway has forwarded
  channels,      \* per Ably channel, the messages published on it
  shown,         \* per storefront, the order data its client was given
  failures,      \* answers of the publish endpoint that were not a success
  sent,          \* publish requests issued over all deliveries of a webhook
  flakes,        \* the product snowflakes the storefront script created
  elements,      \* the order notifications it appended to the body
  raised,        \* whether the callback raised on the last message
  apc,           \* where the action of the admin page stands
  adminRequest,  \* the request it was given: method, form, session shop
  calls,         \* the calls it made of the gateway SDK and of the shop's API
  subscriptions, \* the webhook subscriptions the shop keeps
  webhookUrl,    \* what updateHookdeckConnection returned
  webhook,       \* the action's local webhook
  returned       \* what the action returned

\* the variables of the webhook handler
handlerVars ==
  <<apiKey, pc, request, lookups, queries, notification, publishCalls,
    outbound, fetched, published, response>>

\* the variables of the setup script
setupVars ==
  <<env, shopifyConfig, original, spc, requests, responses,
    hookdeckSourceUrl, answers, writes, exitCode>>

\* the variables of the handler invocations that run side by side, and of
\* the way of their events to the storefronts
concurrentVars == <<deliveries, forwarded, channels, shown>>

\* the variables of the gateway that redelivers
retryVars == <<failures, sent>>

\* the variables of the storefront script
storefrontVars == <<flakes, elements, raised>>

\* the variables of the action of the admin page
adminVars ==
  <<apc, adminRequest, calls, subscriptions, webhookUrl, webhook, returned>>

\* the variables of the pages: the storefront and the admin page
pageVars == <<storefrontVars, adminVars>>

vars == <<handlerVars, setupVars, concurrentVars, retryVars, pageVars>>

None == [kind |-> "none"]

Skipped == [kind |-> "skipped"]

Pending == [kind |-> "pending"]

NoRequest == [sigValid |-> FALSE, payload |-> Undef, shop |-> Undef, admin |-> Undef]

Terminal == {"PUBLISHED", "PUBLISH_FAILED", "AUTH_FAILED"}

\* no delivery is being handled
HandlerIdle ==
  /\ pc = "idle"
  /\ request = NoRequest
  /\ lookups = <<>>
  /\ queries = <<>>
  /\ notification = Undef
  /\ publishCalls = <<>>
  /\ outbound = <<>>
  /\ fetched = None
  /\ published = None
  /\ response = None

\* the setup script before main ran, started in environment e with
\* shopify.app.toml as f
SetupStart(e, f) ==
  /\ env = e
  /\ shopifyConfig = f
  /\ original = f
  /\ spc = "main"
  /\ requests = <<>>
  /\ responses = <<>>
  /\ hookdeckSourceUrl = Undef
  /\ answers = <<>>
  /\ writes = <<>>
  /\ exitCode = None

\* the app server: the setup script is not run
SetupIdle ==
  SetupStart([HOOKDECK_API_KEY |-> apiKey, SHOPIFY_API_SECRET |-> Undef,
              ABLY_API_KEY |-> Undef], Undef)

\* a single invocation of the handler: none beside it
ConcurrentIdle ==
  /\ deliveries = <<>>
  /\ forwarded = {}
  /\ channels = <<>>
  /\ shown = <<>>

\* nothing was sent to the publish endpoint yet
RetryIdle ==
  /\ failures = 0
  /\ sent = <<>>

\* the storefront page after DOMContentLoaded: no product snowflake, no
\* order notification
StorefrontLoaded ==
  /\ flakes = <<>>
  /\ elements = <<>>
  /\ raised = FALSE

\* the action of the admin page before a request, the shop keeping the
\* subscriptions subs
AdminStart(subs) ==
  /\ apc = "idle"
  /\ adminRequest = None
  /\ calls = <<>>
  /\ subscriptions = subs
  /\ webhookUrl = Undef
  /\ webhook = Null
  /\ returned = None

\* no page is open beside what runs
PagesIdle == StorefrontLoaded /\ AdminStart(<<>>)

Init ==
  /\ apiKey \in ApiKeys
  /\ HandlerIdle
  /\ SetupIdle
  /\ ConcurrentIdle
  /\ RetryIdle
  /\ PagesIdle

\* a delivery arrives (log "=== WEBHOOK RECEIVED ==="): one invocation of
\* the handler, whose locals start empty
Receive ==
  /\ pc = "idle"
  /\ \E sig \in BOOLEAN, o \in Orders, s \in Shops, a \in Admins :
       request' = [sigValid |-> sig, payload |-> o, shop |-> s, admin |-> a]
  /\ pc' = "RECEIVED"
  /\ lookups' = <<>>
  /\ queries' = <<>>
  /\ notification' = Undef
  /\ publishCalls' = <<>>
  /\ outbound' = <<>>
  /\ fetched' = None
  /\ published' = None
  /\ response' = None
  /\ UNCHANGED apiKey

\* await authenticate.webhook(request) resolves with the context
AuthenticateOk ==
  /\ pc = "RECEIVED"
  /\ request.sigValid
  /\ pc' = "AUTHENTICATED"
  /\ UNCHANGED <<apiKey, request, lookups, queries, notification,
                 publishCalls, outbound, fetched, published, response>>

\* a handler that catches the rejection of authenticate.webhook and goes on
AuthenticateFailIgnored ==
  /\ pc = "RECEIVED"
  /\ ~request.sigValid
  /\ pc' = "AUTHENTICATED"
  /\ UNCHANGED <<apiKey, request, lookups, queries, notification,
                 publishCalls, outbound, fetched, published, response>>

\* await authenticate.webhook(request) rejects: the handler ends there
AuthenticateFail ==
  /\ pc = "RECEIVED"
  /\ ~request.sigValid
  /\ pc' = "AUTH_FAILED"
  /\ response' = authRejected
  /\ UNCHANGED <<apiKey, request, lookups, queries, notification,
                 publishCalls, outbound, fetched, published>>

\* a transform that strips the customer data from the order it was given,
\* in place, before it maps the line items
StartTransformInPlace ==
  /\ pc = "AUTHENTICATED"
  /\ LET items == orderLineItems(request.payload)
     IN lookups' = [i \in 1..Len(items) |->
                      IF needsLookup(request.admin, items[i]) THEN Pending ELSE Skipped]
  /\ queries' = <<>>
  /\ request' =
       [request EXCEPT
          !.payload = Obj([k \in DOMAIN request.payload.v \ PIIFields |->
                             request.payload.v[k]])]
  /\ pc' = "TRANSFORMING"
  /\ UNCHANGED <<apiKey, notification, publishCalls, outbound,
                 fetched, published, response>>

\* publishOrderNotification -> transformOrderToNotification: the map over
\* the line items runs each callback up to its first await, which issues
\* the catalog query of every item that needs one, in item order
StartTransform ==
  /\ pc = "AUTHENTICATED"
  /\ LET items == orderLineItems(request.payload)
         looked == {i \in 1..Len(items) : needsLookup(request.admin, items[i])}
     IN /\ lookups' = [i \in 1..Len(items) |->
                         IF i \in looked THEN Pending ELSE Skipped]
        /\ queries' = [k \in 1..Cardinality(looked) |->
                         LET i == CHOOSE j \in looked :
                                    Cardinality({m \in looked : m < j}) = k - 1
                         IN <<i, Prop(items[i], "product_id")>>]
  /\ pc' = "TRANSFORMING"
  /\ UNCHANGED <<apiKey, request, notification, publishCalls, outbound,
                 fetched, published, response>>

\* a lookup that queries the catalog once more when the query was rejected
ImageSettleRetrying(i) ==
  /\ pc = "TRANSFORMING"
  /\ i \in 1..Len(lookups)
  /\ lookups[i] = Pending
  /\ \E r \in ImageResponses :
       IF r.kind = "throws" /\ Cardinality({k \in 1..Len(queries) : queries[k][1] = i}) = 1
       THEN /\ queries' = Append(queries, <<i, Prop(orderLineItems(request.payload)[i], "product_id")>>)
            /\ UNCHANGED lookups
       ELSE /\ lookups' = [lookups EXCEPT ![i] = r]
            /\ UNCHANGED queries
  /\ UNCHANGED <<apiKey, pc, request, notification, publishCalls,
                 outbound, fetched, published, response>>

\* one pending catalog query settles, in any order among the items
ImageSettle(i) ==
  /\ pc = "TRANSFORMING"
  /\ i \in 1..Len(lookups)
  /\ lookups[i] = Pending
  /\ \E r \in ImageResponses : lookups' = [lookups EXCEPT ![i] = r]
  /\ UNCHANGED <<apiKey, pc, request, queries, notification, publishCalls,
                 outbound, fetched, published, response>>

\* a transform that does not await the mapped promises: it goes on while
\* lookups are pending and builds the items without their images
FinishTransformEarly ==
  /\ pc = "TRANSFORMING"
  /\ notification' =
       transformOrderToNotification(request.payload, request.shop, request.admin,
         [i \in 1..Len(lookups) |->
            IF lookups[i] = Pending THEN [kind |-> "throws"] ELSE lookups[i]])
  /\ pc' = "NORMALIZED"
  /\ UNCHANGED <<apiKey, request, lookups, queries, publishCalls, outbound,
                 fetched, published, response>>

\* Promise.all resolves once every callback has returned: the notification
\* is built
FinishTransform ==
  /\ pc = "TRANSFORMING"
  /\ \A i \in 1..Len(lookups) : lookups[i] # Pending
  /\ notification' =
       transformOrderToNotification(request.payload, request.shop,
                                    request.admin, lookups)
  /\ pc' = "NORMALIZED"
  /\ UNCHANGED <<apiKey, request, lookups, queries, publishCalls, outbound,
                 fetched, published, response>>

\* publishToHookdeck("shopify-notifications-publish", notification) up to
\* its await: without an API key it throws, which publishOrderNotification
\* and the handler rethrow; with one, the request goes to fetch
PublishStart ==
  /\ pc = "NORMALIZED"
  /\ publishCalls' =
       Append(publishCalls, [sourceName |-> NotificationSource, data |-> notification])
  /\ IF ~Truthy(apiKey)
     THEN /\ published' = missingApiKey
          /\ response' = actionResponse(missingApiKey)
          /\ pc' = "PUBLISH_FAILED"
          /\ UNCHANGED outbound
     ELSE /\ outbound' =
               Append(outbound, publishRequest(NotificationSource, notification, apiKey))
          /\ pc' = "PUBLISHING"
          /\ UNCHANGED <<published, response>>
  /\ UNCHANGED <<apiKey, request, lookups, queries, notification, fetched>>

\* fetch settles: publishToHookdeck returns or throws, and so do
\* publishOrderNotification and the handler
PublishSettle ==
  /\ pc = "PUBLISHING"
  /\ \E o \in FetchOutcomes :
       /\ fetched' = o
       /\ published' = publishToHookdeck(o)
       /\ response' = actionResponse(publishToHookdeck(o))
       /\ pc' = IF publishToHookdeck(o).kind = "returned"
                THEN "PUBLISHED" ELSE "PUBLISH_FAILED"
  /\ UNCHANGED <<apiKey, request, lookups, queries, notification,
                 publishCalls, outbound>>

----------------------------------------------------------------------------
(* scripts/setup-hookdeck.ts: main and the steps it runs in order *)

\* process.exit(code)
Exit(code) ==
  /\ spc' = "exited"
  /\ exitCode' = Num(code)

\* a validation that does not ask for SHOPIFY_API_SECRET
validatePrerequisitesWithoutSecret ==
  /\ spc = "main"
  /\ IF \/ ~Truthy(env.HOOKDECK_API_KEY)
        \/ ~Truthy(env.ABLY_API_KEY)
        \/ shopifyConfig = Undef
     THEN Exit(1)
     ELSE spc' = "validated" /\ UNCHANGED exitCode
  /\ UNCHANGED <<env, shopifyConfig, original, requests, responses,
                 hookdeckSourceUrl, answers, writes>>

\* main, step 1: validatePrerequisites exits unless the three environment
\* variables are set and shopify.app.toml can be read
validatePrerequisites ==
  /\ spc = "main"
  /\ IF \/ ~Truthy(env.HOOKDECK_API_KEY)
        \/ ~Truthy(env.SHOPIFY_API_SECRET)
        \/ ~Truthy(env.ABLY_API_KEY)
        \/ shopifyConfig = Undef
     THEN Exit(1)
     ELSE spc' = "validated" /\ UNCHANGED exitCode
  /\ UNCHANGED <<env, shopifyConfig, original, requests, responses,
                 hookdeckSourceUrl, answers, writes>>

\* main, step 2: createHookdeckConnection puts the shopify-orders-create
\* connection and returns its source URL, or exits
createHookdeckConnection ==
  /\ spc = "validated"
  /\ requests' =
       Append(requests, connectionRequest(env.HOOKDECK_API_KEY,
                                          hookdeckConnection(env.SHOPIFY_API_SECRET)))
  /\ \E o \in ConnectionOutcomes :
       /\ responses' = Append(responses, o)
       /\ IF connectionSourceUrl(o) = Undef
          THEN Exit(1) /\ UNCHANGED hookdeckSourceUrl
          ELSE /\ hookdeckSourceUrl' = connectionSourceUrl(o)
               /\ spc' = "hookdeckCreated"
               /\ UNCHANGED exitCode
  /\ UNCHANGED <<env, shopifyConfig, original, answers, writes>>

\* main, step 3: createAblyConnection splits ABLY_API_KEY, exits if either
\* half is empty, else puts the ably-notifications connection, and exits if
\* that fails
createAblyConnection ==
  /\ spc = "hookdeckCreated"
  /\ LET c == ablyCredentials(env.ABLY_API_KEY)
     IN IF ~Truthy(c.username) \/ ~Truthy(c.password)
        THEN Exit(1) /\ UNCHANGED <<requests, responses>>
        ELSE /\ requests' =
                  Append(requests, connectionRequest(env.HOOKDECK_API_KEY,
                                     ablyConnection(c.username, c.password)))
             /\ \E o \in ConnectionOutcomes :
                  /\ responses' = Append(responses, o)
                  /\ IF connectionSourceUrl(o) = Undef
                     THEN Exit(1)
                     ELSE spc' = "ablyCreated" /\ UNCHANGED exitCode
  /\ UNCHANGED <<env, shopifyConfig, original, hookdeckSourceUrl, answers, writes>>

\* main, step 4 and the summary: updateShopifyConfig exits without a
\* subscription that lists orders/create, asks, exits with 0 unless the
\* answer is a yes, rewrites the content and writes it back; main then
\* prints the summary and the script ends
updateShopifyConfig ==
  /\ spc = "ablyCreated"
  /\ LET fileContent == shopifyConfig.v
         webhookSubs == TOMLparse(fileContent)
     IN IF webhookSubs = Undef \/ ordersCreateSub(webhookSubs) = 0
        THEN Exit(1) /\ UNCHANGED <<shopifyConfig, answers, writes>>
        ELSE \E a \in Answers :
               /\ answers' = Append(answers, a)
               /\ IF ~confirm(a)
                  THEN Exit(0) /\ UNCHANGED <<shopifyConfig, writes>>
                  ELSE \E w \in WriteOutcomes :
                         IF w = "throws"
                         THEN Exit(1) /\ UNCHANGED <<shopifyConfig, writes>>
                         ELSE LET updatedContent ==
                                    replaceUri(fileContent, hookdeckSourceUrl.v)
                              IN /\ shopifyConfig' = Text(updatedContent)
                                 /\ writes' = Append(writes, Text(updatedContent))
                                 /\ spc' = "done"
                                 /\ exitCode' = Num(0)
  /\ UNCHANGED <<env, original, requests, responses, hookdeckSourceUrl>>

----------------------------------------------------------------------------
(* Two invocations of the handler side by side, and the way of a published  *)
(* event to the storefronts: the ably-notifications connection of the       *)
(* setup script and connectAbly of the storefront script                    *)

\* the invocations of the handler
Deliveries == {1, 2}

\* the shops the app is installed in; each has a storefront with the script
InstalledShops == {Str("a.myshopify.com"), Str("b.myshopify.com")}

\* orders of one line item that names a product
SingleItemOrders ==
  {o \in Orders :
     /\ Len(orderLineItems(o)) = 1
     /\ Truthy(Prop(orderLineItems(o)[1], "product_id"))}

\* the answers of the catalog and of the publish endpoint that tell the
\* invocations apart: a rejected and an answered query, a rejected, a
\* refused and an accepted publish
SampleImageResponses ==
  {[kind |-> "throws"], ProductResponse(Obj([url |-> ImageUrl]))}

SampleFetchOutcomes ==
  {[kind |-> "networkError"],
   [kind |-> "response", status |-> 503, json |-> Undef],
   [kind |-> "response", status |-> 200, json |-> PublishResponseBody]}

\* an invocation for an authenticated delivery, before its first step
ReceivedDelivery(order, shop) ==
  [pc |-> "RECEIVED",
   request |-> [sigValid |-> TRUE, payload |-> order, shop |-> shop,
                admin |-> Obj([graphql |-> Str("client")])],
   lookups |-> <<>>,
   notification |-> Undef,
   outbound |-> <<>>,
   fetched |-> None,
   published |-> None,
   response |-> None]

\* authenticate.webhook resolves for invocation d
DeliveryAuthenticate(d) ==
  /\ deliveries[d].pc = "RECEIVED"
  /\ deliveries' = [deliveries EXCEPT ![d].pc = "AUTHENTICATED"]
  /\ UNCHANGED <<forwarded, channels, shown>>

\* invocation d starts its transform: the catalog queries are issued
DeliveryStartTransform(d) ==
  /\ deliveries[d].pc = "AUTHENTICATED"
  /\ LET r == deliveries[d].request
         items == orderLineItems(r.payload)
     IN deliveries' =
          [deliveries EXCEPT
             ![d].pc = "TRANSFORMING",
             ![d].lookups = [i \in 1..Len(items) |->
                               IF needsLookup(r.admin, items[i])
                               THEN Pending ELSE Skipped]]
  /\ UNCHANGED <<forwarded, channels, shown>>

\* a catalog query of invocation d settles
DeliveryImageSettle(d, i) ==
  /\ deliveries[d].pc = "TRANSFORMING"
  /\ i \in 1..Len(deliveries[d].lookups)
  /\ deliveries[d].lookups[i] = Pending
  /\ \E r \in SampleImageResponses :
       deliveries' = [deliveries EXCEPT ![d].lookups[i] = r]
  /\ UNCHANGED <<forwarded, channels, shown>>

\* Promise.all of invocation d resolves: its notification is built
DeliveryFinishTransform(d) ==
  /\ deliveries[d].pc = "TRANSFORMING"
  /\ \A i \in 1..Len(deliveries[d].lookups) : deliveries[d].lookups[i] # Pending
  /\ LET r == deliveries[d].request
     IN deliveries' =
          [deliveries EXCEPT
             ![d].pc = "NORMALIZED",
             ![d].notification =
               transformOrderToNotification(r.payload, r.shop, r.admin,
                                            deliveries[d].lookups)]
  /\ UNCHANGED <<forwarded, channels, shown>>

\* a publisher that keeps the notification in a variable of the module: an
\* invocation publishes what the other one built, once the other has built
DeliveryPublishStartShared(d) ==
  /\ deliveries[d].pc = "NORMALIZED"
  /\ Truthy(apiKey)
  /\ LET e == CHOOSE x \in Deliveries : x # d
         data == IF deliveries[e].notification # Undef
                 THEN deliveries[e].notification
                 ELSE deliveries[d].notification
     IN deliveries' =
          [deliveries EXCEPT
             ![d].pc = "PUBLISHING",
             ![d].outbound = <<publishRequest(NotificationSource, data, apiKey)>>]
  /\ UNCHANGED <<forwarded, channels, shown>>

\* invocation d calls publishToHookdeck with its notification: without an
\* API key it throws, with one the request goes to fetch
DeliveryPublishStart(d) ==
  /\ deliveries[d].pc = "NORMALIZED"
  /\ deliveries' =
       IF ~Truthy(apiKey)
       THEN [deliveries EXCEPT
               ![d].pc = "PUBLISH_FAILED",
               ![d].published = missingApiKey,
               ![d].response = actionResponse(missingApiKey)]
       ELSE [deliveries EXCEPT
               ![d].pc = "PUBLISHING",
               ![d].outbound =
                 <<publishRequest(NotificationSource, deliveries[d].notification, apiKey)>>]
  /\ UNCHANGED <<forwarded, channels, shown>>

\* the fetch of invocation d settles: the handler answers or raises
DeliveryPublishSettle(d) ==
  /\ deliveries[d].pc = "PUBLISHING"
  /\ \E o \in SampleFetchOutcomes :
       deliveries' =
         [deliveries EXCEPT
            ![d].pc = IF publishToHookdeck(o).kind = "returned"
                      THEN "PUBLISHED" ELSE "PUBLISH_FAILED",
            ![d].fetched = o,
            ![d].published = publishToHookdeck(o),
            ![d].response = actionResponse(publishToHookdeck(o))]
  /\ UNCHANGED <<forwarded, channels, shown>>

\* the channel named by the URL of an Ably REST publish:
\* https://rest.ably.io/channels/<channel>/messages
channelOf(url) == url.v[2]

\* the channel the ably-notifications connection of the setup script posts to
destinationChannel ==
  channelOf(Prop(Prop(Prop(ablyConnection(Undef, Undef), "destination"), "config"), "url"))

\* ably.channels.get("shopify-notifications") of the storefront script
clientChannel == "shopify-notifications"

\* the channels there are: those of the connection and of the client
AblyChannels == {destinationChannel, clientChannel}

\* the gateway forwards the event the endpoint took for invocation d to the
\* destination of the connection: the body becomes a message of the channel
Forward(d) ==
  /\ deliveries[d].pc = "PUBLISHED"
  /\ d \notin forwarded
  /\ forwarded' = forwarded \cup {d}
  /\ channels' =
       [channels EXCEPT
          ![destinationChannel] = Append(@, Obj([data |-> deliveries[d].outbound[1].body]))]
  /\ UNCHANGED <<deliveries, shown>>

\* the subscriber of connectAbly in the storefront of a shop is called with
\* the next message of its channel: orderData = message.data?.data ||
\* message.data, and createNotification(orderData) if there is any
Subscriber(shop) ==
  /\ Len(shown[shop]) < Len(channels[clientChannel])
  /\ LET message == channels[clientChannel][Len(shown[shop]) + 1]
         orderData == Or(OptChain(Prop(message, "data"), "data"), Prop(message, "data"))
     IN shown' = [shown EXCEPT ![shop] = Append(@, orderData)]
  /\ UNCHANGED <<deliveries, forwarded, channels>>

\* the publish endpoint took the request: a 2xx answer with a JSON body
Accepted ==
  /\ fetched.kind = "response"
  /\ fetched.status \in 200..299
  /\ fetched.json # Undef

----------------------------------------------------------------------------
(* A gateway that delivers the webhook again each time the handler raises, *)
(* and a publish endpoint that fails at most MaxFailures times             *)

\* the deliveries the gateway holds: a valid or an invalid signature, an
\* order of one line item, with or without admin client
RetryRequests ==
  [sigValid : BOOLEAN, payload : SingleItemOrders,
   shop : {Str("a.myshopify.com")}, admin : Admins]

\* the handler raised (the catch block rethrows, or authenticate.webhook
\* rejected): the gateway delivers the same webhook again, to a new
\* invocation of the handler
Redeliver ==
  /\ response.kind = "raised"
  /\ pc' = "RECEIVED"
  /\ lookups' = <<>>
  /\ queries' = <<>>
  /\ notification' = Undef
  /\ publishCalls' = <<>>
  /\ outbound' = <<>>
  /\ fetched' = None
  /\ published' = None
  /\ response' = None
  /\ UNCHANGED <<apiKey, request, failures, sent>>

\* publishToHookdeck is called: the request it hands to fetch, if any, is
\* one more request to the endpoint
PublishStartCounted ==
  /\ PublishStart
  /\ sent' = IF Truthy(apiKey) THEN Append(sent, outbound'[Len(outbound')]) ELSE sent
  /\ UNCHANGED failures

\* the endpoint answers: anything while it has failed less than MaxFailures
\* times, with success after that
PublishSettleEventually ==
  /\ PublishSettle
  /\ failures' = IF Accepted' THEN failures ELSE failures + 1
  /\ failures' <= MaxFailures
  /\ UNCHANGED sent

----------------------------------------------------------------------------
(* The storefront script: the callbacks the browser runs *)

\* the values Date.now() takes
Now == {1, 2}

\* the channel delivers a message: the callback of channel.subscribe runs
OnMessage(m) ==
  LET r == subscribeCallback(m)
  IN /\ Len(flakes) + Len(r.flakes) <= MaxFlakes
     /\ raised' = r.raised
     /\ flakes' = flakes \o r.flakes
     /\ elements' = elements \o r.elements

\* the test interval fires: a product snowflake of the test image
TestInterval ==
  /\ Len(flakes) < MaxFlakes
  /\ \E now \in Now :
       flakes' = Append(flakes,
                        createProductSnowflake(testImage,
                                               Str(<<"Test Product ", now>>)))
  /\ UNCHANGED <<elements, raised>>

\* a click on a product snowflake, which is in the container: flake.remove()
FlakeClick(f) ==
  /\ f \in DOMAIN flakes
  /\ flakes[f].inContainer
  /\ flakes' = [flakes EXCEPT ![f].inContainer = FALSE,
                              ![f].removals = Append(@, "click")]
  /\ UNCHANGED <<elements, raised>>

\* the auto-remove timer of a product snowflake fires: flake.remove() if the
\* container contains the flake
FlakeTimeout(f) ==
  /\ f \in DOMAIN flakes
  /\ flakes[f].timer = "pending"
  /\ flakes' = IF flakes[f].inContainer
               THEN [flakes EXCEPT ![f].timer = "fired",
                                   ![f].inContainer = FALSE,
                                   ![f].removals = Append(@, "timer")]
               ELSE [flakes EXCEPT ![f].timer = "fired"]
  /\ UNCHANGED <<elements, raised>>

\* a click on the close button of an order notification, which is in the
\* body: this.parentElement.remove()
NotificationClose(n) ==
  /\ n \in DOMAIN elements
  /\ elements[n].inBody
  /\ elements' = [elements EXCEPT ![n].inBody = FALSE]
  /\ UNCHANGED <<flakes, raised>>

\* the 10 s timer of an order notification fires: the animation is
\* reversed and the 300 ms timer is set
NotificationTimeout(n) ==
  /\ n \in DOMAIN elements
  /\ elements[n].timer = "pending"
  /\ elements' = [elements EXCEPT ![n].timer = "reversing"]
  /\ UNCHANGED <<flakes, raised>>

\* the 300 ms timer of an order notification fires: notification.remove()
NotificationRemove(n) ==
  /\ n \in DOMAIN elements
  /\ elements[n].timer = "reversing"
  /\ elements' = [elements EXCEPT ![n].timer = "done", ![n].inBody = FALSE]
  /\ UNCHANGED <<flakes, raised>>

----------------------------------------------------------------------------
(* The admin page: the action, from one await to the next *)

\* a request reaches the action; the route module was loaded, which
\* app/helpers/webhooks lets happen only with HOOKDECK_API_KEY set
AdminReceive ==
  /\ apc = "idle"
  /\ Truthy(apiKey)
  /\ \E m \in Methods, id \in FormWebhookIds, sh \in SessionShops :
       adminRequest' = [method |-> m, webhookId |-> id, shop |-> sh]
  /\ apc' = "received"
  /\ UNCHANGED <<calls, subscriptions, webhookUrl, webhook, returned>>

\* authenticate.admin(request) resolves or throws
AdminAuthenticate ==
  /\ apc = "received"
  /\ \E resolves \in BOOLEAN :
       IF resolves
       THEN apc' = "authenticated" /\ UNCHANGED returned
       ELSE apc' = "thrown" /\ returned' = [kind |-> "raised"]
  /\ UNCHANGED <<adminRequest, calls, subscriptions, webhookUrl, webhook>>

\* createOrdersWebhook, first await: it replaces the first dot of the shop
\* domain and gives the result to updateHookdeckConnection, which replaces
\* once more, upserts the connection of the shop and returns the URL of its
\* source, or rejects
updateHookdeckConnection ==
  /\ apc = "authenticated"
  /\ adminRequest.method = "POST"
  /\ LET shopId == Text(replace(adminRequest.shop.v))
     IN calls' = Append(calls, [op |-> "connection.upsert",
                                variables |-> connectionUpsert(shopId, env.ABLY_API_KEY)])
  /\ \E o \in CallOutcomes \ {"userErrors"} :
       IF o = "ok"
       THEN /\ webhookUrl' = Str(SourceUrl)
            /\ apc' = "connected"
            /\ UNCHANGED returned
       ELSE /\ apc' = "thrown"
            /\ returned' = [kind |-> "raised"]
            /\ UNCHANGED webhookUrl
  /\ UNCHANGED <<adminRequest, subscriptions, webhook>>

\* createOrdersWebhook, second await: the webhookSubscriptionCreate
\* mutation, whose answer becomes the action's webhook
createOrdersWebhook ==
  /\ apc = "connected"
  /\ calls' = Append(calls, webhookSubscriptionCreate(webhookUrl))
  /\ \E o \in CallOutcomes :
       CASE o = "ok" ->
              LET created == Node(WebhookId(Len(subscriptions) + 2),
                                  "ORDERS_CREATE", webhookUrl)
              IN /\ subscriptions' = Append(subscriptions, created)
                 /\ webhook' = Obj([webhookSubscription |-> created])
                 /\ apc' = "mutated"
                 /\ UNCHANGED returned
         [] o = "userErrors" ->
              /\ webhook' = Obj([webhookSubscription |-> Null])
              /\ apc' = "mutated"
              /\ UNCHANGED <<subscriptions, returned>>
         [] o = "throws" ->
              /\ apc' = "thrown"
              /\ returned' = [kind |-> "raised"]
              /\ UNCHANGED <<subscriptions, webhook>>
  /\ UNCHANGED <<adminRequest, webhookUrl>>

\* a DELETE branch that calls deleteWebhook with whatever the form has
deleteWebhookUnchecked ==
  /\ apc = "authenticated"
  /\ adminRequest.method = "DELETE"
  /\ \E form \in BOOLEAN :
       IF ~form
       THEN /\ apc' = "thrown"
            /\ returned' = [kind |-> "raised"]
            /\ UNCHANGED <<calls, subscriptions, webhook>>
       ELSE /\ calls' = Append(calls, webhookSubscriptionDelete(adminRequest.webhookId))
            /\ \E o \in CallOutcomes :
                 LET kept == SelectSeq(subscriptions,
                                       LAMBDA n : Prop(n, "id") # adminRequest.webhookId)
                 IN CASE o = "ok" /\ kept # subscriptions ->
                           /\ subscriptions' = kept
                           /\ webhook' = Obj([deletedWebhookSubscriptionId |->
                                                adminRequest.webhookId])
                           /\ apc' = "mutated"
                           /\ UNCHANGED returned
                      [] o = "throws" ->
                           /\ apc' = "thrown"
                           /\ returned' = [kind |-> "raised"]
                           /\ UNCHANGED <<subscriptions, webhook>>
                      [] OTHER ->
                           /\ webhook' = Obj([deletedWebhookSubscriptionId |-> Null])
                           /\ apc' = "mutated"
                           /\ UNCHANGED <<subscriptions, returned>>
  /\ UNCHANGED <<adminRequest, webhookUrl>>

\* the DELETE branch: request.formData() resolves or rejects, and
\* deleteWebhook is called with the webhookId of the form unless it is null
deleteWebhook ==
  /\ apc = "authenticated"
  /\ adminRequest.method = "DELETE"
  /\ \E form \in BOOLEAN :
       IF ~form
       THEN /\ apc' = "thrown"
            /\ returned' = [kind |-> "raised"]
            /\ UNCHANGED <<calls, subscriptions, webhook>>
       ELSE IF adminRequest.webhookId = Null
       THEN /\ apc' = "mutated"
            /\ UNCHANGED <<calls, subscriptions, webhook, returned>>
       ELSE /\ calls' = Append(calls, webhookSubscriptionDelete(adminRequest.webhookId))
            /\ \E o \in CallOutcomes :
                 LET kept == SelectSeq(subscriptions,
                                       LAMBDA n : Prop(n, "id") # adminRequest.webhookId)
                 IN CASE o = "ok" /\ kept # subscriptions ->
                           /\ subscriptions' = kept
                           /\ webhook' = Obj([deletedWebhookSubscriptionId |->
                                                adminRequest.webhookId])
                           /\ apc' = "mutated"
                           /\ UNCHANGED returned
                      [] o = "throws" ->
                           /\ apc' = "thrown"
                           /\ returned' = [kind |-> "raised"]
                           /\ UNCHANGED <<subscriptions, webhook>>
                      [] OTHER ->
                           /\ webhook' = Obj([deletedWebhookSubscriptionId |-> Null])
                           /\ apc' = "mutated"
                           /\ UNCHANGED <<subscriptions, returned>>
  /\ UNCHANGED <<adminRequest, webhookUrl>>

\* getWebhookSubscriptions and the return: the action lists the
\* subscriptions the shop keeps, after the branch it took or, for any other
\* method, right after the authentication
getWebhookSubscriptions ==
  /\ \/ apc = "mutated"
     \/ /\ apc = "authenticated"
        /\ adminRequest.method \notin {"POST", "DELETE"}
  /\ calls' = Append(calls, WebhookSubscriptionList)
  /\ \E o \in CallOutcomes \ {"userErrors"} :
       IF o = "ok"
       THEN /\ apc' = "returned"
            /\ returned' = [kind |-> "returned",
                            webhook |-> webhook,
                            webhookSubscriptions |-> Arr(subscriptions)]
       ELSE /\ apc' = "thrown"
            /\ returned' = [kind |-> "raised"]
  /\ UNCHANGED <<adminRequest, subscriptions, webhookUrl, webhook>>

----------------------------------------------------------------------------
(* Properties *)

\* the primitive values that occur anywhere in a JSON value
RECURSIVE Leaves(_)
Leaves(x) ==
  IF x.t = "array" THEN UNION {Leaves(x.v[i]) : i \in 1..Len(x.v)}
  ELSE IF x.t = "object" THEN UNION {Leaves(x.v[k]) : k \in DOMAIN x.v}
  ELSE {x}

\* the keys that occur anywhere in a JSON value
RECURSIVE Keys(_)
Keys(x) ==
  IF x.t = "array" THEN UNION {Keys(x.v[i]) : i \in 1..Len(x.v)}
  ELSE IF x.t = "object"
  THEN DOMAIN x.v \cup UNION {Keys(x.v[k]) : k \in DOMAIN x.v}
  ELSE {}

\* the customer data the order of the delivery carries
OrderPII == {Prop(request.payload, f) : f \in PIIFields}

Received == pc # "idle"

Built == notification # Undef

InputItems == orderLineItems(request.payload)

\* C1: neither the notification built from an order nor the body of a
\* publish request holds a value of the order's customer name, email, phone,
\* shipping or billing address, payment details or IP address, and neither
\* has a key of that name
PIIExcluded ==
  /\ Built =>
       /\ Leaves(notification) \cap OrderPII = {}
       /\ Keys(notification) \cap PIIFields = {}
  /\ \A n \in 1..Len(outbound) :
       /\ Leaves(outbound[n].body) \cap OrderPII = {}
       /\ Keys(outbound[n].body) \cap PIIFields = {}

\* an order with customer data and a line item went out to the endpoint
PIIExcludedWitness ==
  /\ pc = "PUBLISHING"
  /\ Len(outbound) = 1
  /\ Str("ada@example.com") \in OrderPII
  /\ Len(InputItems) = MaxItems
  /\ \E i \in 1..Len(lookups) : lookups[i] = ProductResponse(Obj([url |-> ImageUrl]))

\* the fields of an order, and of a line item, outside the allow-list
PrivateOrderFields == PIIFields \cup {"id", "name"}

PrivateItemFields == {"id", "properties"}

\* another value for a field outside the allow-list
OtherValue(v) == IF v = Undef THEN Str("other") ELSE Undef

\* the orders that agree with o on every allow-listed order field and on
\* every allow-listed field of every line item: o with each one, or with all,
\* of its other order fields changed, and with the other fields of the line
\* items at any set of positions changed
Agreeing(o) ==
  LET li == Prop(o, "line_items")
      n == IF li.t = "array" THEN Len(li.v) ELSE 0
      items(P) ==
        IF li.t = "array"
        THEN Arr([i \in 1..n |->
                   IF i \in P
                   THEN Obj([k \in DOMAIN li.v[i].v |->
                              IF k \in PrivateItemFields
                              THEN OtherValue(li.v[i].v[k])
                              ELSE li.v[i].v[k]])
                   ELSE li.v[i]])
        ELSE li
  IN {Obj([k \in DOMAIN o.v |->
            IF k \in F THEN OtherValue(o.v[k])
            ELSE IF k = "line_items" THEN items(P)
            ELSE o.v[k]]) :
        F \in {{}, PrivateOrderFields} \cup {{f} : f \in PrivateOrderFields},
        P \in SUBSET (1..n)}

RECURSIVE SumQuantity(_)
SumQuantity(items) ==
  IF items = <<>> THEN 0
  ELSE Prop(Head(items), "quantity").v + SumQuantity(Tail(items))

\* C3: item_count of the notification is the sum of the quantities of the
\* order's line items, and 0 for an order whose line_items is empty or absent
ItemCountIsSum ==
  Built =>
    LET li == Prop(request.payload, "line_items")
    IN /\ li.t = "array" =>
            Prop(notification, "item_count") = Num(SumQuantity(li.v))
       /\ (li = Undef \/ li = Arr(<<>>)) =>
            Prop(notification, "item_count") = Num(0)

\* a notification was built from an order of several line items, one of
\* them with a quantity above one
ItemCountIsSumWitness ==
  /\ Built
  /\ Len(InputItems) = MaxItems
  /\ \E i \in 1..Len(InputItems) : Prop(InputItems[i], "quantity").v > 1
  /\ Prop(notification, "item_count").v > MaxItems

\* a notification was built from an order without line_items
ItemCountAbsentWitness ==
  /\ Built
  /\ Prop(request.payload, "line_items") = Undef

\* the catalog answers that carry no image URL: the call rejected, the body
\* was not JSON, the product has no featured image, or the body is not the
\* document asked for (a featured image whose url is null)
FailedImageResponses ==
  {[kind |-> "throws"], [kind |-> "badJson"], ProductResponse(Null),
   ProductResponse(Obj([url |-> Null]))}

\* line item i of a notification as it is serialized
SerializedItem(n, i) == Prop(JSONstringify(n), "line_items").v[i]

Authenticated == Received /\ request.sigValid

\* C4: a line item whose image lookup threw, got a malformed answer or a
\* product without featured image, or had no admin client, has no image key
\* in the serialized notification and in the published body; the transform
\* completes all the same and its notification is what is passed to
\* publishToHookdeck
ImageBestEffort ==
  /\ \A i \in 1..Len(lookups) :
       (\/ lookups[i] \in FailedImageResponses
        \/ lookups[i] = Skipped /\ ~Truthy(request.admin)) =>
         /\ Built => "image" \notin DOMAIN SerializedItem(notification, i).v
         /\ \A n \in 1..Len(outbound) :
              "image" \notin DOMAIN Prop(Prop(outbound[n].body, "data"), "line_items").v[i].v
  /\ pc \in {"NORMALIZED", "PUBLISHING", "PUBLISHED", "PUBLISH_FAILED"} => Built
  /\ \A n \in 1..Len(publishCalls) : publishCalls[n].data = notification

\* C5: when fetch rejects or the endpoint answers outside 2xx,
\* publishToHookdeck throws and yields no result, and for an answer outside
\* 2xx the error carries that status (a rejected fetch has none to carry); it
\* returns only for a 2xx answer, and what it returns is the endpoint's
\* response with its id
PublishFailureSurfaces ==
  fetched # None =>
    LET answered == fetched.kind = "response"
        is2xx == answered /\ fetched.status \in 200..299
    IN /\ ~is2xx => published.kind = "raised" /\ "result" \notin DOMAIN published
       /\ (answered /\ ~is2xx) => published.status = Num(fetched.status)
       /\ published.kind = "returned" =>
            /\ is2xx
            /\ published.result = fetched.json
            /\ "id" \in DOMAIN published.result.v

\* the endpoint answered 400 and publishToHookdeck threw
PublishFailureSurfacesWitness ==
  /\ pc = "PUBLISH_FAILED"
  /\ fetched.kind = "response"
  /\ fetched.status = 400
  /\ published.kind = "raised"

\* C6: a delivery whose authentication fails issues no catalog query, builds
\* no notification and makes no publish call
AuthGate ==
  (Received /\ ~request.sigValid) =>
    /\ pc \in {"RECEIVED", "AUTH_FAILED"}
    /\ lookups = <<>>
    /\ queries = <<>>
    /\ notification = Undef
    /\ publishCalls = <<>>
    /\ outbound = <<>>

\* a delivery with an admin client and a line item to look up was rejected
AuthGateWitness ==
  /\ pc = "AUTH_FAILED"
  /\ Truthy(request.admin)
  /\ \E i \in 1..Len(InputItems) : Truthy(Prop(InputItems[i], "product_id"))

DeliverySteps ==
  {<<"idle", "RECEIVED">>, <<"RECEIVED", "AUTHENTICATED">>,
   <<"RECEIVED", "AUTH_FAILED">>, <<"AUTHENTICATED", "TRANSFORMING">>,
   <<"TRANSFORMING", "NORMALIZED">>, <<"NORMALIZED", "PUBLISHING">>,
   <<"NORMALIZED", "PUBLISH_FAILED">>, <<"PUBLISHING", "PUBLISHED">>,
   <<"PUBLISHING", "PUBLISH_FAILED">>}

\* C10: a delivery goes RECEIVED, AUTHENTICATED, NORMALIZED, PUBLISHED in that
\* order; publishToHookdeck is called, and the publish request issued, at
\* most once, only for an authenticated delivery and only when no image
\* lookup is pending; the delivery ends published, or rejected by the
\* authentication, or with what the publish raised
DeliveryOrder ==
  /\ [](/\ Len(publishCalls) <= 1
        /\ Len(outbound) <= 1
        /\ Len(outbound) <= Len(publishCalls)
        /\ publishCalls # <<>> =>
             /\ request.sigValid
             /\ Built
             /\ \A i \in 1..Len(lookups) : lookups[i] # Pending
        /\ pc = "PUBLISHED" => Len(outbound) = 1 /\ response.kind = "response"
        /\ response # None <=> pc \in Terminal
        /\ response.kind = "raised" =>
             \/ pc = "AUTH_FAILED" /\ ~request.sigValid
             \/ pc = "PUBLISH_FAILED" /\ published.kind = "raised"
                  /\ Len(publishCalls) = 1)
  /\ [][pc' # pc => <<pc, pc'>> \in DeliverySteps]_vars

\* a delivery was published after the lookups of all its line items settled
DeliveryOrderWitness ==
  /\ pc = "PUBLISHED"
  /\ Len(lookups) = MaxItems
  /\ \A i \in 1..Len(lookups) : lookups[i] \in ImageResponses

SetupComplete == spc = "done"

\* C13 as stated: when the setup script ran to its end, the subscription of
\* shopify.app.toml that lists orders/create has the source URL of the
\* shopify-orders-create connection for its uri, and every other subscription
\* has the uri it had
UriPointsToSource ==
  SetupComplete =>
    LET before == TOMLparse(original.v).v
        after == TOMLparse(shopifyConfig.v).v
        found == ordersCreateSub(TOMLparse(original.v))
    IN /\ Len(after) = Len(before)
       /\ \A n \in 1..Len(after) :
            after[n].uri = IF n = found THEN hookdeckSourceUrl ELSE before[n].uri

\* a connection request that failed: fetch rejected, the status is outside
\* 2xx, or the answer names no source URL
ConnectionFailed(o) ==
  \/ o.kind = "networkError"
  \/ o.status \notin 200..299
  \/ ~Truthy(Prop(Prop(o.json, "source"), "url"))

\* C14: the script requests the shopify-orders-create connection, then the
\* ably-notifications connection, and only after both succeeded asks about,
\* or writes, shopify.app.toml; when a connection request fails the script
\* issues no further request, exits with status 1 and leaves the file as it
\* was
ConnectionsBeforeConfig ==
  /\ Len(requests) <= 2
  /\ Len(responses) = Len(requests)
  /\ \A n \in 1..Len(requests) :
       Prop(requests[n].body, "name")
         = Str(<<"shopify-orders-create", "ably-notifications">>[n])
  /\ (answers # <<>> \/ writes # <<>> \/ shopifyConfig # original) =>
       /\ Len(requests) = 2
       /\ \A n \in 1..2 : ~ConnectionFailed(responses[n])
  /\ \A n \in 1..Len(responses) :
       ConnectionFailed(responses[n]) =>
         /\ Len(requests) = n
         /\ exitCode = Num(1)
         /\ shopifyConfig = original
         /\ writes = <<>>
         /\ answers = <<>>

\* the Ably connection request was answered without a source URL, on a file
\* whose subscription could have been rewritten
ConnectionsBeforeConfigWitness ==
  /\ exitCode = Num(1)
  /\ Len(responses) = 2
  /\ responses[2].kind = "response"
  /\ responses[2].status = 200
  /\ ConnectionFailed(responses[2])
  /\ matchedUriLine(original.v) # 0

\* the fields the map callback copies from a line item
CopiedItemFields ==
  {"name", "title", "quantity", "price", "sku", "product_id", "variant_id",
   "grams", "vendor", "requires_shipping", "taxable", "gift_card"}

\* C15: the line items of the notification are as many as the order's, and
\* the i-th carries the copied fields of the i-th line item of the order and
\* the image its own lookup gave (none for an item that was not looked up),
\* whichever lookups failed and in whatever order they settled
PositionalJoin ==
  Built =>
    LET out == Prop(notification, "line_items").v
    IN /\ Len(out) = Len(InputItems)
       /\ \A i \in 1..Len(out) :
            /\ \A f \in CopiedItemFields : Prop(out[i], f) = Prop(InputItems[i], f)
            /\ Prop(out[i], "image") =
                 IF lookups[i] = Skipped THEN Undef ELSE fetchProductImage(lookups[i])

\* a notification was built from two different line items, the lookup of the
\* first failed and the lookup of the second gave an image
PositionalJoinWitness ==
  /\ Built
  /\ Len(InputItems) = 2
  /\ Prop(InputItems[1], "quantity") # Prop(InputItems[2], "quantity")
  /\ lookups[1] = [kind |-> "throws"]
  /\ lookups[2] = ProductResponse(Obj([url |-> ImageUrl]))

\* the transform has issued its catalog queries
TransformStarted ==
  pc \in {"TRANSFORMING", "NORMALIZED", "PUBLISHING", "PUBLISHED", "PUBLISH_FAILED"}

\* C16: for each line item of the order the catalog is queried once, for the
\* item's product, when the transform has started with an admin client and
\* the item has a product identifier, and not at all otherwise; a query that
\* failed is not issued again
OneQueryPerItem ==
  /\ \A i \in 1..Len(InputItems) :
       Cardinality({k \in 1..Len(queries) : queries[k][1] = i})
         = IF /\ TransformStarted
              /\ Truthy(request.admin)
              /\ Truthy(Prop(InputItems[i], "product_id"))
           THEN 1 ELSE 0
  /\ \A k \in 1..Len(queries) :
       /\ queries[k][1] \in 1..Len(InputItems)
       /\ queries[k][2] = Prop(InputItems[queries[k][1]], "product_id")

\* a delivery with an admin client ended after the one query of its first
\* line item was rejected, its second line item naming no product
OneQueryPerItemWitness ==
  /\ pc \in Terminal
  /\ Truthy(request.admin)
  /\ Len(lookups) = 2
  /\ lookups[1] = [kind |-> "throws"]
  /\ lookups[2] = Skipped
  /\ Len(queries) = 1

PublishCarriesRecord ==
  /\ \A n \in 1..Len(outbound) :
       /\ outbound[n].url = "https://hkdk.events/v1/publish"
       /\ DOMAIN outbound[n].body.v = {"data"}
       /\ Prop(outbound[n].body, "data") = JSONstringify(notification)
       /\ Truthy(apiKey)
       /\ outbound[n].headers.Authorization = <<"Bearer", apiKey>>
       /\ outbound[n].headers.XHookdeckSourceName = "shopify-notifications-publish"
       /\ Str(outbound[n].headers.XHookdeckSourceName)
            = Prop(Prop(ablyConnection(Undef, Undef), "source"), "name")
  /\ \A n \in 1..Len(publishCalls) :
       Str(publishCalls[n].sourceName)
         = Prop(Prop(ablyConnection(Undef, Undef), "source"), "name")

\* the notification of an order with line items went out to the endpoint
PublishCarriesRecordWitness ==
  /\ pc = "PUBLISHING"
  /\ Len(outbound) = 1
  /\ Len(InputItems) = MaxItems
  /\ Built

\* C11 as stated: a storefront client is given the order data of its own
\* shop only, and the messages of one channel are all of one shop
StoreIsolation ==
  /\ \A sh \in DOMAIN shown :
       \A n \in 1..Len(shown[sh]) : Prop(shown[sh][n], "shop") = sh
  /\ \A c \in DOMAIN channels :
       \A m, n \in 1..Len(channels[c]) :
         Prop(Prop(Prop(channels[c][m], "data"), "data"), "shop")
           = Prop(Prop(Prop(channels[c][n], "data"), "data"), "shop")

\* the endpoint took the publish request of an invocation
AcceptedFor(x) ==
  /\ x.fetched # None
  /\ x.fetched.kind = "response"
  /\ x.fetched.status \in 200..299
  /\ x.fetched.json # Undef

\* C19: of two invocations that run side by side in any interleaving, each
\* builds its notification from its own shop, its own order and its own
\* image lookups, sends at most one publish request, whose body is its own
\* notification, and is answered by what the endpoint did with its own
\* request; a step of one invocation changes nothing of the other
DeliveriesIndependent ==
  /\ [](\A d \in DOMAIN deliveries :
          LET x == deliveries[d]
              item == orderLineItems(x.request.payload)[1]
          IN /\ x.notification # Undef =>
                  /\ Prop(x.notification, "shop") = x.request.shop
                  /\ Prop(x.notification, "item_count") = Prop(item, "quantity")
                  /\ Prop(x.notification, "test")
                       = Or(Prop(x.request.payload, "test"), Bool(FALSE))
                  /\ Prop(Prop(x.notification, "line_items").v[1], "image")
                       = fetchProductImage(x.lookups[1])
             /\ Len(x.outbound) <= 1
             /\ \A n \in 1..Len(x.outbound) :
                  Prop(x.outbound[n].body, "data") = JSONstringify(x.notification)
             /\ x.pc \in Terminal =>
                  (x.response.kind = "response" <=> AcceptedFor(x)))
  /\ [][\A d \in Deliveries :
          deliveries'[d] # deliveries[d] =>
            \A e \in Deliveries \ {d} : deliveries'[e] = deliveries[e]]_vars

\* two invocations for different orders of different shops, with different
\* answers of the catalog, ended: the publish of the first was refused, the
\* second was published
DeliveriesIndependentWitness ==
  /\ DOMAIN deliveries = Deliveries
  /\ deliveries[1].pc = "PUBLISH_FAILED"
  /\ deliveries[1].fetched # None
  /\ deliveries[2].pc = "PUBLISHED"
  /\ deliveries[1].request.shop # deliveries[2].request.shop
  /\ deliveries[1].request.payload # deliveries[2].request.payload
  /\ deliveries[1].lookups # deliveries[2].lookups

\* the publish requests sent for one webhook are all for the same order:
\* their bodies differ in the images of the line items at most
SameOrder(a, b) ==
  LET without(body) ==
        [k \in DOMAIN Prop(body, "data").v \ {"line_items"} |-> Prop(body, "data").v[k]]
      names(body) ==
        [i \in 1..Len(Prop(Prop(body, "data"), "line_items").v) |->
           <<Prop(Prop(Prop(body, "data"), "line_items").v[i], "name"),
             Prop(Prop(Prop(body, "data"), "line_items").v[i], "quantity")>>]
  IN without(a) = without(b) /\ names(a) = names(b)

ShopAndTest ==
  Built =>
    LET contextShop == request.shop
        orderShop == Prop(request.payload, "shop_domain")
        flag == Prop(request.payload, "test")
    IN /\ Prop(notification, "shop") =
            IF contextShop.t = "string" /\ contextShop.v # "" THEN contextShop
            ELSE IF orderShop.t = "string" /\ orderShop.v # "" THEN orderShop
            ELSE Str("")
       /\ Prop(notification, "test").t = "boolean"
       /\ flag \in {Undef, Null, Bool(FALSE)} => Prop(notification, "test") = Bool(FALSE)
       /\ flag = Bool(TRUE) => Prop(notification, "test") = Bool(TRUE)

\* a notification was built for a delivery whose context names no shop, from
\* an order that names one
ShopAndTestWitness ==
  /\ Built
  /\ request.shop = Str("")
  /\ Prop(request.payload, "shop_domain") = Str("b.myshopify.com")
  /\ Prop(notification, "shop") = Str("b.myshopify.com")
  /\ Prop(notification, "test") = Bool(TRUE)

\* C22: from the call of transformOrderToNotification to its return
\* nothing changes but the image lookups and the notification: the order and
\* its line items, the shop and the admin client are as they were given, and
\* nothing is published or answered; each invocation starts without a
\* notification and ends with one built from its own order and lookups
TransformFrame ==
  /\ [][(pc \in {"AUTHENTICATED", "TRANSFORMING"}) =>
          (/\ request' = request
           /\ apiKey' = apiKey
           /\ publishCalls' = publishCalls
           /\ outbound' = outbound
           /\ fetched' = fetched
           /\ published' = published
           /\ response' = response
           /\ sent' = sent)]_vars
  /\ [](pc \in {"RECEIVED", "AUTHENTICATED", "TRANSFORMING"} => notification = Undef)
  /\ [](pc = "NORMALIZED" =>
          /\ notification # Undef
          /\ notification # request.payload
          /\ Len(Prop(notification, "line_items").v) = Len(InputItems)
          /\ \A i \in 1..Len(InputItems) :
               /\ Prop(notification, "line_items").v[i] # InputItems[i]
               /\ Prop(Prop(notification, "line_items").v[i], "image") =
                    IF lookups[i] = Skipped THEN Undef ELSE fetchProductImage(lookups[i]))

\* the second invocation for a webhook built a notification that is not the
\* one the first invocation published
TransformFrameWitness ==
  /\ pc = "NORMALIZED"
  /\ failures = 1
  /\ Len(sent) = 1
  /\ JSONstringify(notification) # Prop(sent[1].body, "data")
  /\ Len(InputItems) > 0

\* a prerequisite of the setup script does not hold: one of the three
\* environment variables is unset or empty, or shopify.app.toml cannot be read
PrerequisiteMissing ==
  \/ ~Truthy(env.HOOKDECK_API_KEY)
  \/ ~Truthy(env.SHOPIFY_API_SECRET)
  \/ ~Truthy(env.ABLY_API_KEY)
  \/ original = Undef

\* C23: when a prerequisite does not hold, the setup script sends no request
\* to the gateway API and does not write shopify.app.toml; it gets no further
\* than the validation, and where it has exited the status is 1
ValidationBeforeRequests ==
  PrerequisiteMissing =>
    /\ requests = <<>>
    /\ responses = <<>>
    /\ writes = <<>>
    /\ answers = <<>>
    /\ shopifyConfig = original
    /\ spc \in {"main", "exited"}
    /\ (spc = "exited" => exitCode = Num(1))

\* the script has exited in the validation with the three variables set and
\* shopify.app.toml unreadable
ValidationBeforeRequestsWitness ==
  /\ spc = "exited"
  /\ exitCode = Num(1)
  /\ requests = <<>>
  /\ Truthy(env.HOOKDECK_API_KEY)
  /\ Truthy(env.SHOPIFY_API_SECRET)
  /\ Truthy(env.ABLY_API_KEY)
  /\ original = Undef

\* the answers that are y or yes in some case
YesAnswers == {"y", "Y", "yes", "Yes", "YES"}

\* C24: shopify.app.toml is written only after the prompt was answered with
\* y or yes in some case; after any other answer the file is as it was, the
\* script has exited with status 0, and both connection requests were sent
\* and answered with a success
WriteOnlyAfterYes ==
  /\ Len(answers) <= 1
  /\ (writes # <<>> \/ shopifyConfig # original) =>
       /\ Len(answers) = 1
       /\ answers[1] \in YesAnswers
  /\ (Len(answers) = 1 /\ answers[1] \notin YesAnswers) =>
       /\ writes = <<>>
       /\ shopifyConfig = original
       /\ spc = "exited"
       /\ exitCode = Num(0)
       /\ Len(requests) = 2
       /\ \A n \in 1..2 : ~ConnectionFailed(responses[n])

\* the prompt was answered with the empty line on a file whose subscription
\* could have been rewritten
WriteOnlyAfterYesWitness ==
  /\ answers = <<"">>
  /\ exitCode = Num(0)
  /\ Len(requests) = 2
  /\ matchedUriLine(original.v) # 0

\* a key that is set and is not of the form appId.keyId:keySecret: it has no
\* colon, or nothing before its first colon, or nothing after it
Malformed(key) ==
  /\ key # Undef
  /\ LET colons == {i \in 1..Len(key.v) : key.v[i] = ":"}
     IN \/ colons = {}
        \/ 1 \in colons
        \/ \A i \in colons : (\A j \in colons : i <= j) => i = Len(key.v)

\* C25: with a malformed ABLY_API_KEY the script never sends the
\* ably-notifications request and never asks about or writes
\* shopify.app.toml; where it has exited the status is 1; and the key is
\* looked at only after the shopify-orders-create request: the script that
\* passed the validation exits with exactly that one request sent, and
\* stands before the look with that connection created
MalformedKeyAborts ==
  Malformed(env.ABLY_API_KEY) =>
    /\ \A n \in 1..Len(requests) :
         Prop(requests[n].body, "name") # Str("ably-notifications")
    /\ writes = <<>>
    /\ answers = <<>>
    /\ shopifyConfig = original
    /\ spc \notin {"ablyCreated", "done"}
    /\ (spc = "exited" => exitCode = Num(1))
    /\ (spc = "hookdeckCreated" \/ (spc = "exited" /\ ~PrerequisiteMissing)) =>
         /\ Len(requests) = 1
         /\ Prop(requests[1].body, "name") = Str("shopify-orders-create")
    /\ spc = "hookdeckCreated" => ~ConnectionFailed(responses[1])

\* the script has exited on a key without a secret, after the
\* shopify-orders-create connection was created
MalformedKeyAbortsWitness ==
  /\ env.ABLY_API_KEY = Text(<<"a", ".", "k", ":">>)
  /\ spc = "exited"
  /\ exitCode = Num(1)
  /\ Len(responses) = 1
  /\ ~ConnectionFailed(responses[1])

\* the product snowflake f is in the snowfall container
InContainer(f) == f \in DOMAIN flakes /\ flakes[f].inContainer

\* C26: every product snowflake that is in the container is out of it in the
\* end; it is taken out at most once, by a click or by its timer, and it is
\* in the container exactly as long as nothing took it out; and once it is
\* out, no step changes anything about it but that its timer has run out
SnowflakeRemovedOnce ==
  /\ \A f \in 1..MaxFlakes : InContainer(f) ~> ~InContainer(f)
  /\ [](\A f \in DOMAIN flakes :
          /\ flakes[f].removals \in {<<>>, <<"click">>, <<"timer">>}
          /\ flakes[f].inContainer <=> flakes[f].removals = <<>>)
  /\ [][(\A f \in DOMAIN flakes :
           ~flakes[f].inContainer =>
             /\ flakes'[f].inContainer = FALSE
             /\ flakes'[f].removals = flakes[f].removals
             /\ flakes'[f].img = flakes[f].img
             /\ flakes'[f].textContent = flakes[f].textContent)]_vars

\* one product snowflake was clicked away and its timer ran out afterwards,
\* another was taken out by its timer
SnowflakeRemovedOnceWitness ==
  \E f, g \in DOMAIN flakes :
    /\ flakes[f].removals = <<"click">>
    /\ flakes[f].timer = "fired"
    /\ flakes[g].removals = <<"timer">>

\* the order data of a channel message: its nested data where there is one,
\* else its data
OrderDataOf(m) ==
  IF Truthy(OptChain(Prop(m, "data"), "data"))
  THEN Prop(Prop(m, "data"), "data")
  ELSE Prop(m, "data")

\* the line items of a channel message: those of its order data, none when
\* it has no order data or the order data has no line_items
LineItemsOf(m) ==
  IF Prop(OrderDataOf(m), "line_items").t = "array"
  THEN Prop(OrderDataOf(m), "line_items").v
  ELSE <<>>

\* the product snowflake shows the line item, and is in the container
FlakeOf(flake, item) ==
  /\ flake.inContainer
  /\ flake.removals = <<>>
  /\ IF Truthy(Prop(item, "image"))
     THEN flake.img = Obj([src |-> Prop(item, "image"), alt |-> Prop(item, "name")])
     ELSE flake.img = Undef /\ flake.textContent = Str("gift")

\* the order notification shows the line item and the order's currency and
\* shop, and is in the body
ElementOf(element, orderData, item) ==
  /\ element.inBody
  /\ element.product = Prop(item, "name")
  /\ element.price = <<Prop(orderData, "currency"), Prop(item, "price"),
                       Prop(item, "quantity")>>
  /\ element.shop = Prop(orderData, "shop")
  /\ element.image # Undef <=> Truthy(Prop(item, "image"))
  /\ element.image # Undef => Prop(element.image, "src") = Prop(item, "image")

\* C27: the callback, given a message whose order data has a line item,
\* adds one product snowflake and one order notification and nothing else,
\* both showing the first line item; given any other message it adds
\* nothing; and it never raises
OneFlakeAndNotificationPerMessage ==
  [][(\A m \in Messages :
        OnMessage(m) =>
          /\ ~raised'
          /\ IF LineItemsOf(m) # <<>>
             THEN /\ Len(flakes') = Len(flakes) + 1
                  /\ SubSeq(flakes', 1, Len(flakes)) = flakes
                  /\ FlakeOf(flakes'[Len(flakes')], LineItemsOf(m)[1])
                  /\ Len(elements') = Len(elements) + 1
                  /\ SubSeq(elements', 1, Len(elements)) = elements
                  /\ ElementOf(elements'[Len(elements')], OrderDataOf(m),
                               LineItemsOf(m)[1])
             ELSE flakes' = flakes /\ elements' = elements)]_vars

\* the callback was given the message of two line items: there is the one
\* snowflake and the one notification, of the first of the two, which has
\* no image
OneFlakeAndNotificationPerMessageWitness ==
  /\ Len(flakes) = 1
  /\ Len(elements) = 1
  /\ ~raised
  /\ elements[1].product = Prop(TeeItem, "name")
  /\ flakes[1].img = Undef

\* the mutations among the calls of the action
MutationCalls ==
  SelectSeq(calls, LAMBDA c : c.op \in {"webhookSubscriptionCreate",
                                        "webhookSubscriptionDelete"})

\* C28: the action sends at most one mutation; a create only for a POST, and
\* for the topic ORDERS_CREATE; a delete only for a DELETE whose form has a
\* webhookId, and of that id; when it has returned, a POST has sent its
\* create and such a DELETE its delete, the list query was its last call,
\* sent once, and the list it returned is what the shop keeps after the
\* mutation
MutationByMethod ==
  /\ Len(MutationCalls) <= 1
  /\ \A n \in 1..Len(calls) :
       /\ calls[n].op = "webhookSubscriptionCreate" =>
            /\ adminRequest.method = "POST"
            /\ Prop(calls[n].variables, "topic") = Str("ORDERS_CREATE")
       /\ calls[n].op = "webhookSubscriptionDelete" =>
            /\ adminRequest.method = "DELETE"
            /\ adminRequest.webhookId # Null
            /\ Prop(calls[n].variables, "id") = adminRequest.webhookId
  /\ apc = "returned" =>
       /\ adminRequest.method = "POST" =>
            /\ Len(MutationCalls) = 1
            /\ MutationCalls[1].op = "webhookSubscriptionCreate"
       /\ (adminRequest.method = "DELETE" /\ adminRequest.webhookId # Null) =>
            /\ Len(MutationCalls) = 1
            /\ MutationCalls[1].op = "webhookSubscriptionDelete"
       /\ calls[Len(calls)].op = "WebhookSubscriptionList"
       /\ \A n \in 1..(Len(calls) - 1) : calls[n].op # "WebhookSubscriptionList"
       /\ returned.webhookSubscriptions = Arr(subscriptions)
       /\ returned.webhook = webhook
       /\ Truthy(Prop(webhook, "webhookSubscription")) =>
            \E n \in 1..Len(subscriptions) :
              subscriptions[n] = Prop(webhook, "webhookSubscription")
       /\ Truthy(Prop(webhook, "deletedWebhookSubscriptionId")) =>
            \A n \in 1..Len(subscriptions) :
              Prop(subscriptions[n], "id") # Prop(webhook, "deletedWebhookSubscriptionId")

\* the action has returned from a POST to a shop that had a subscription:
\* the list it returned has the one it created beside it
MutationByMethodWitness ==
  /\ apc = "returned"
  /\ adminRequest.method = "POST"
  /\ Len(returned.webhookSubscriptions.v) = 2
  /\ returned.webhookSubscriptions.v[2] = Prop(webhook, "webhookSubscription")

----------------------------------------------------------------------------

\* what a step of a single delivery, or of the setup script, leaves alone
others == <<concurrentVars, retryVars, pageVars>>

\* the app server handling one delivery
Next ==
  \/ Receive /\ UNCHANGED <<setupVars, others>>
  \/ AuthenticateOk /\ UNCHANGED <<setupVars, others>>
  \/ AuthenticateFail /\ UNCHANGED <<setupVars, others>>
  \/ StartTransform /\ UNCHANGED <<setupVars, others>>
  \/ \E i \in 1..MaxItems : ImageSettle(i) /\ UNCHANGED <<setupVars, others>>
  \/ FinishTransform /\ UNCHANGED <<setupVars, others>>
  \/ PublishStart /\ UNCHANGED <<setupVars, others>>
  \/ PublishSettle /\ UNCHANGED <<setupVars, others>>

Spec == Init /\ [][Next]_vars

\* one run of the setup script, in any environment and on any shopify.app.toml
SetupInit ==
  /\ \E e \in Envs, f \in ShopifyConfigs : SetupStart(e, f)
  /\ apiKey = env.HOOKDECK_API_KEY
  /\ HandlerIdle
  /\ ConcurrentIdle
  /\ RetryIdle
  /\ PagesIdle

SetupNext ==
  \/ validatePrerequisites /\ UNCHANGED <<handlerVars, others>>
  \/ createHookdeckConnection /\ UNCHANGED <<handlerVars, others>>
  \/ createAblyConnection /\ UNCHANGED <<handlerVars, others>>
  \/ updateShopifyConfig /\ UNCHANGED <<handlerVars, others>>

SetupSpec == SetupInit /\ [][SetupNext]_vars

\* two authenticated deliveries, of any two shops, handled side by side
ConcurrentInit ==
  /\ apiKey \in ApiKeys
  /\ HandlerIdle
  /\ SetupIdle
  /\ RetryIdle
  /\ PagesIdle
  /\ deliveries \in [Deliveries ->
                       {ReceivedDelivery(o, sh) :
                          o \in SingleItemOrders, sh \in InstalledShops}]
  /\ forwarded = {}
  /\ channels = [c \in AblyChannels |-> <<>>]
  /\ shown = [sh \in InstalledShops |-> <<>>]

\* what a step of the invocations side by side leaves alone
single == <<handlerVars, setupVars, retryVars, pageVars>>

ConcurrentNext ==
  \/ \E d \in Deliveries : DeliveryAuthenticate(d) /\ UNCHANGED single
  \/ \E d \in Deliveries : DeliveryStartTransform(d) /\ UNCHANGED single
  \/ \E d \in Deliveries, i \in 1..MaxItems : DeliveryImageSettle(d, i) /\ UNCHANGED single
  \/ \E d \in Deliveries : DeliveryFinishTransform(d) /\ UNCHANGED single
  \/ \E d \in Deliveries : DeliveryPublishStart(d) /\ UNCHANGED single
  \/ \E d \in Deliveries : DeliveryPublishSettle(d) /\ UNCHANGED single
  \/ \E d \in Deliveries : Forward(d) /\ UNCHANGED single
  \/ \E sh \in InstalledShops : Subscriber(sh) /\ UNCHANGED single

ConcurrentSpec == ConcurrentInit /\ [][ConcurrentNext]_vars

\* a webhook in the hands of the gateway, delivered for the first time
RetryInit ==
  /\ apiKey \in ApiKeys
  /\ pc = "RECEIVED"
  /\ request \in RetryRequests
  /\ lookups = <<>>
  /\ queries = <<>>
  /\ notification = Undef
  /\ publishCalls = <<>>
  /\ outbound = <<>>
  /\ fetched = None
  /\ published = None
  /\ response = None
  /\ SetupIdle
  /\ ConcurrentIdle
  /\ RetryIdle
  /\ PagesIdle

RetryNext ==
  \/ AuthenticateOk /\ UNCHANGED <<setupVars, others>>
  \/ AuthenticateFail /\ UNCHANGED <<setupVars, others>>
  \/ StartTransform /\ UNCHANGED <<setupVars, others>>
  \/ \E i \in 1..MaxItems : ImageSettle(i) /\ UNCHANGED <<setupVars, others>>
  \/ FinishTransform /\ UNCHANGED <<setupVars, others>>
  \/ PublishStartCounted /\ UNCHANGED <<setupVars, concurrentVars, pageVars>>
  \/ PublishSettleEventually /\ UNCHANGED <<setupVars, concurrentVars, pageVars>>
  \/ Redeliver /\ UNCHANGED <<setupVars, concurrentVars, pageVars>>

\* every step that can be taken is taken in the end: the handler runs on,
\* the catalog and the endpoint answer, the gateway delivers again
RetrySpec == RetryInit /\ [][RetryNext]_vars /\ WF_vars(RetryNext)

\* the storefront page, loaded, while messages come in, the test interval
\* fires, the visitor clicks and the timers run out
StorefrontInit ==
  /\ apiKey = Undef
  /\ HandlerIdle
  /\ SetupIdle
  /\ ConcurrentIdle
  /\ RetryIdle
  /\ StorefrontLoaded
  /\ AdminStart(<<>>)

\* what a step of the storefront page leaves alone
server == <<handlerVars, setupVars, concurrentVars, retryVars, adminVars>>

StorefrontNext ==
  \/ \E m \in Messages : OnMessage(m) /\ UNCHANGED server
  \/ TestInterval /\ UNCHANGED server
  \/ \E f \in 1..MaxFlakes : FlakeClick(f) /\ UNCHANGED server
  \/ \E f \in 1..MaxFlakes : FlakeTimeout(f) /\ UNCHANGED server
  \/ \E n \in 1..MaxFlakes : NotificationClose(n) /\ UNCHANGED server
  \/ \E n \in 1..MaxFlakes : NotificationTimeout(n) /\ UNCHANGED server
  \/ \E n \in 1..MaxFlakes : NotificationRemove(n) /\ UNCHANGED server

\* a timer that was set runs out: the page stays open
StorefrontSpec ==
  /\ StorefrontInit
  /\ [][StorefrontNext]_vars
  /\ \A f \in 1..MaxFlakes : WF_vars(FlakeTimeout(f) /\ UNCHANGED server)

\* one request to the action of the admin page, of any method and form, to
\* a shop with or without a subscription
AdminInit ==
  /\ apiKey \in ApiKeys
  /\ HandlerIdle
  /\ SetupIdle
  /\ ConcurrentIdle
  /\ RetryIdle
  /\ StorefrontLoaded
  /\ \E subs \in SubscriptionLists : AdminStart(subs)

\* what a step of the action leaves alone
rest == <<handlerVars, setupVars, concurrentVars, retryVars, storefrontVars>>

AdminNext ==
  \/ AdminReceive /\ UNCHANGED rest
  \/ AdminAuthenticate /\ UNCHANGED rest
  \/ updateHookdeckConnection /\ UNCHANGED rest
  \/ createOrdersWebhook /\ UNCHANGED rest
  \/ deleteWebhook /\ UNCHANGED rest
  \/ getWebhookSubscriptions /\ UNCHANGED rest

AdminSpec == AdminInit /\ [][AdminNext]_vars

====
